---- MODULE Spec2Model ----
(***************************************************************************)
(* Event service lifecycle of iceoryx2: the builder of                    *)
(* iceoryx2/src/service/builder/event.rs (open, create, open_or_create)   *)
(* run by several processes against one service name.  The shared state   *)
(* is the static artifact (absent, locked by its creator, sealed) and the *)
(* dynamic config segment; every storage operation of the builder is one  *)
(* atomic step of the calling process.                                    *)
(***************************************************************************)
EXTENDS Integers, FiniteSets, Sequences, TLC

\* ------------------------------------------------------------------ bounds
NProcs == 2
MaxCapacity == 2
MaxEventId == 1
MaxWaitStep == 2
\* global_config.global.service.creation_timeout, in units of waited time
creation_timeout == 1

Procs == 1..NProcs

VARIABLES
    env,        \* what the filesystem namespace answers besides the artifacts
    static,     \* the static artifact of the service
    dynamic,    \* the dynamic config segment of the service
    pc,         \* position of each process in its call
    op,         \* the entry point each process calls
    settings,   \* each builder: service_config.event() and the verify_* flags
    requested,  \* each builder as the caller handed it over
    waited,     \* each open: time accumulated by its adaptive wait
    sample,     \* each call: the last result of is_service_available
    result,     \* each call: "none" while running, "Ok" or the error
    factory,    \* each call: the static config it read or wrote, which the
                \* returned port factory carries
    create_result, \* each call: what its create_impl returned, "none" before
    faulted     \* each call: whether a storage operation or a wait of it failed
                \* for a reason outside the protocol

evvars == <<env, static, dynamic, pc, op, settings, requested, waited, sample,
            result, factory, create_result, faulted>>

\* ------------------------------------------------------- wait set: bounds
\* iceoryx2/src/port/waitset.rs: the WaitSets of one process, the file
\* descriptors they observe, their timers and the process-wide signal handler
NWaitSets == 2
MaxFd == 2
MaxTimers == 2
MaxPeriod == 2
MaxElapsed == 2

WaitSets == 1..NWaitSets
Fds == 1..MaxFd
TimerIndex == 1..MaxTimers
\* the placeholders of an AttachmentId or Guard without fd or without timer,
\* and of Option<TimerIndex>::None
NoFd == 0
NoTimer == 0

VARIABLES
    world,      \* what the process consists of: the WaitSets it created, the
                \* fds it holds, the capacity of a reactor, the timer indices
                \* a Timer hands out and the timeouts the process asks for
    termination_requested, \* SignalHandler: SIGTERM was received
    ready,      \* the fds on which an event is pending
    reactor,    \* each WaitSet: the fds attached to its reactor
    timer,      \* each WaitSet: its timers by index
    deadline_to_timer, \* each WaitSet: the map fd -> timer index, as pairs
    timer_to_deadline, \* each WaitSet: the map timer index -> fd, as pairs
    guards,     \* each WaitSet: the Guards that are alive
    wpc,        \* each WaitSet: position of its run call, "idle" between calls
    fds,        \* each run: the fds collected from the reactor
    fd_and_timer_idx,  \* each run: the fds whose deadline it has reset so far
    missed,     \* each run: the timers whose timeout had been reached when the
                \* reactor returned
    calls,      \* each run: the AttachmentIds handed to fn_call so far
    run_result, \* each WaitSet: what its last run returned, "none" while running
    attach_result,     \* each WaitSet: its last attach call or drop, its
                       \* result and len() before it
    timed_wait  \* each run: what Reactor::timed_wait returned, "none" before

wsvars == <<world, termination_requested, ready, reactor, timer,
            deadline_to_timer, timer_to_deadline, guards, wpc, fds,
            fd_and_timer_idx, missed, calls, run_result, attach_result,
            timed_wait>>

\* ----------------------------------------------------------- ports: bounds
\* the ports of the service: the registries of the dynamic config, the
\* listeners' rings and semaphores, and the processes that hold the ports
NPeers == 3
MaxGeneration == 2
MaxIds == 3
MaxPosts == 2

\* the processes that take part in the service through ports
Peers == 1..NPeers

Kinds == {"listener", "notifier"}
\* the owner of a slot that has none, and the UniqueId of a slot without port
NoOwner == 0
NoId == 0

VARIABLES
    alive,      \* each process: it exists (it has not been killed)
    program,    \* each process: the calls on ports that its program makes
    registry,   \* each port kind: the slots of its registry in the dynamic
                \* config
    ring,       \* each listener slot: the pending EventIds, as a bitset
    semaphore,  \* each listener slot: the pending posts of its semaphore
    ports,      \* each process: the ports it holds
    ppc,        \* each process: position in its call on a port, "idle" between
    local,      \* each call on a port: its arguments and locals
    presult,    \* each process: what its last call on a port returned
    ids,        \* the number of UniqueIds handed out so far
    hooks,      \* each slot: how often the cleanup hook ran for the port that
                \* claimed it last
    owed        \* each listener slot: the EventIds delivered to it that no
                \* drain has yielded yet

ptvars == <<alive, program, registry, ring, semaphore, ports, ppc, local,
            presult, ids, hooks, owed>>

\* -------------------------------------------------- dynamic storage: bounds
\* the shared-memory objects that back the dynamic storage under one name
MaxObjects == 2

Objects == 1..MaxObjects
\* the name resolves to no object
NoObject == 0

VARIABLES
    shm_name,   \* the object that the name of the dynamic storage resolves to,
                \* NoObject when the name is not linked
    shm,        \* each object: the reference count of its header and how
                \* often it was unlinked
    created,    \* the number of objects created so far
    storage     \* each process: its handle to the dynamic storage

dsvars == <<shm_name, shm, created, storage>>

\* ------------------------------------------------ posix shim (windows): bounds
MaxShimFd == 2

\* the fds that a caller hands to the shim
ShimFds == 1..MaxShimFd

VARIABLES
    table,      \* HandleTranslator: the entry of every fd
    errno,      \* GLOBAL_ERRNO_VALUE of the calling thread
    shim        \* the last call of the thread into the shim and what it
                \* returned

wnvars == <<table, errno, shim>>

vars == <<evvars, wsvars, ptvars, dsvars, wnvars>>

\* ------------------------------------------------------------- data model
NoConfig == [pattern |-> "None", max_notifiers |-> 0, max_listeners |-> 0,
             event_id_max_value |-> 0]

\* the static artifact: its creator is the identity written at the exclusive
\* creation
AbsentStatic == [state |-> "Absent", creator |-> 0, config |-> NoConfig]

NoDynamic == [exists |-> FALSE, creator |-> 0, number_of_listeners |-> 0,
              number_of_notifiers |-> 0, refs |-> 0]

\* a segment that ports of a prior incarnation still hold (creator 0: none of
\* the processes of this run)
StaleDynamic == [exists |-> TRUE, creator |-> 0, number_of_listeners |-> 1,
                 number_of_notifiers |-> 1, refs |-> 1]

\* static_config::event::StaticConfig::new(global_config)
DefaultConfig == [max_notifiers |-> MaxCapacity, max_listeners |-> MaxCapacity,
                  event_id_max_value |-> MaxEventId]

\* Builder::new
NewBuilder ==
    [max_notifiers |-> DefaultConfig.max_notifiers,
     max_listeners |-> DefaultConfig.max_listeners,
     event_id_max_value |-> DefaultConfig.event_id_max_value,
     verify_max_notifiers |-> FALSE,
     verify_max_listeners |-> FALSE,
     verify_event_id_max_value |-> FALSE]

event_id_max_value(b, value) ==
    [b EXCEPT !.event_id_max_value = value, !.verify_event_id_max_value = TRUE]

max_notifiers(b, value) ==
    [b EXCEPT !.max_notifiers = value, !.verify_max_notifiers = TRUE]

max_listeners(b, value) ==
    [b EXCEPT !.max_listeners = value, !.verify_max_listeners = TRUE]

\* the builders with max_notifiers and max_listeners each called or not
CapacityBuilders ==
    LET B1 == {NewBuilder} \cup {max_notifiers(NewBuilder, v) : v \in 0..MaxCapacity}
    IN  B1 \cup {max_listeners(b, v) : b \in B1, v \in 0..MaxCapacity}

\* every builder a caller can hand over: each setter called or not
BuilderStates ==
    CapacityBuilders
        \cup {event_id_max_value(b, v) : b \in CapacityBuilders, v \in 0..MaxEventId}

\* self.base.service_config: the event settings as a static config
ServiceConfig(b) ==
    [pattern |-> "Event", max_notifiers |-> b.max_notifiers,
     max_listeners |-> b.max_listeners,
     event_id_max_value |-> b.event_id_max_value]

\* ------------------------------------------------- the storage, as observed
\* base.is_service_available(): Ok(None) is "None", Ok(Some(_)) is "Some"
is_service_available ==
    IF env # "ok" THEN env
    ELSE IF static.state = "Absent" THEN "None"
    ELSE IF static.state = "Locked" THEN "IsBeingCreatedByAnotherInstance"
    ELSE IF dynamic.exists THEN "Some"
    ELSE "Corrupted"

\* base.create_static_config_storage(): what the exclusive creation answers
create_static_config_storage ==
    IF static.state = "Absent" THEN "Ok"
    ELSE IF static.state = "Sealed" THEN "AlreadyExists"
    ELSE "Creation"

\* base.create_dynamic_config_storage(..): what the creation answers
create_dynamic_config_storage ==
    IF dynamic.exists THEN "AlreadyExists" ELSE "Ok"

\* a failed creation that leaves the locked static storage where it is
DropCreated_KeepsStatic(p, withDynamic) ==
    /\ UNCHANGED static
    /\ dynamic' = IF withDynamic THEN NoDynamic ELSE dynamic

\* dropping a static storage that still has ownership removes it; dropping the
\* creator's dynamic storage removes the segment
DropCreated(p, withDynamic) ==
    /\ static' = IF static.creator = p /\ static.state = "Locked"
                 THEN AbsentStatic ELSE static
    /\ dynamic' = IF withDynamic THEN NoDynamic ELSE dynamic

\* ------------------------------------------------------------ pure helpers
\* adjust_properties_to_meaningful_values without the clamp of max_listeners
adjust_properties_NotifiersOnly(b) ==
    IF b.max_notifiers = 0 THEN [b EXCEPT !.max_notifiers = 1] ELSE b

adjust_properties_to_meaningful_values(b) ==
    LET b1 == IF b.max_notifiers = 0 THEN [b EXCEPT !.max_notifiers = 1] ELSE b
    IN  IF b1.max_listeners = 0 THEN [b1 EXCEPT !.max_listeners = 1] ELSE b1

\* verify_service_properties comparing also the values the caller did not set
verify_service_properties_IgnoresFlags(b, existing_settings) ==
    IF existing_settings.pattern # "Event"
        THEN "EventOpenError::IncompatibleMessagingPattern"
    ELSE IF existing_settings.max_notifiers < b.max_notifiers
        THEN "EventOpenError::DoesNotSupportRequestedAmountOfNotifiers"
    ELSE IF existing_settings.max_listeners < b.max_listeners
        THEN "EventOpenError::DoesNotSupportRequestedAmountOfListeners"
    ELSE IF existing_settings.event_id_max_value < b.event_id_max_value
        THEN "EventOpenError::DoesNotSupportRequestedMaxEventId"
    ELSE "Ok"

\* "Ok" or the EventOpenError of verify_service_properties
verify_service_properties(b, existing_settings) ==
    IF existing_settings.pattern # "Event"
        THEN "EventOpenError::IncompatibleMessagingPattern"
    ELSE IF b.verify_max_notifiers
            /\ existing_settings.max_notifiers < b.max_notifiers
        THEN "EventOpenError::DoesNotSupportRequestedAmountOfNotifiers"
    ELSE IF b.verify_max_listeners
            /\ existing_settings.max_listeners < b.max_listeners
        THEN "EventOpenError::DoesNotSupportRequestedAmountOfListeners"
    ELSE IF b.verify_event_id_max_value
            /\ existing_settings.event_id_max_value < b.event_id_max_value
        THEN "EventOpenError::DoesNotSupportRequestedMaxEventId"
    ELSE "Ok"

\* OpenErrorOf answering an absent service with another error kind
OpenErrorOf_AbsentIsInternalFailure(state) ==
    CASE state = "None" -> "EventOpenError::InternalFailure"
      [] state = "PermissionDenied" -> "EventOpenError::PermissionDenied"
      [] state = "IncompatibleMessagingPattern" -> "EventOpenError::PermissionDenied"
      [] state = "Corrupted" -> "EventOpenError::EventInCorruptedState"

\* open: the error returned for a sampled state that is neither Ok(Some(_))
\* nor IsBeingCreatedByAnotherInstance
OpenErrorOf(state) ==
    CASE state = "None" -> "EventOpenError::DoesNotExist"
      [] state = "PermissionDenied" -> "EventOpenError::PermissionDenied"
      [] state = "IncompatibleMessagingPattern" -> "EventOpenError::PermissionDenied"
      [] state = "Corrupted" -> "EventOpenError::EventInCorruptedState"

\* TimeoutExceeded giving up when the timeout is reached, not exceeded
TimeoutExceeded_WhenReached(timeout) == timeout >= creation_timeout

\* open: whether the waited time exceeds the creation timeout
TimeoutExceeded(timeout) == timeout > creation_timeout

\* CreateErrorOf with the arm of a creation in progress merged into AlreadyExists
CreateErrorOf_BeingCreatedIsAlreadyExists(state) ==
    CASE state \in {"Some", "IncompatibleMessagingPattern",
                    "IsBeingCreatedByAnotherInstance"} ->
            "EventCreateError::AlreadyExists"
      [] state = "PermissionDenied" -> "EventCreateError::PermissionDenied"
      [] state = "Corrupted" -> "EventCreateError::Corrupted"

\* create_impl: the error returned for a sampled state other than Ok(None)
CreateErrorOf(state) ==
    CASE state \in {"Some", "IncompatibleMessagingPattern"} ->
            "EventCreateError::AlreadyExists"
      [] state = "PermissionDenied" -> "EventCreateError::PermissionDenied"
      [] state = "Corrupted" -> "EventCreateError::Corrupted"
      [] state = "IsBeingCreatedByAnotherInstance" ->
            "EventCreateError::IsBeingCreatedByAnotherInstance"

\* create_impl: the error returned for a StaticStorageCreateError
StaticCreateErrorOf(e) ==
    CASE e = "AlreadyExists" -> "EventCreateError::AlreadyExists"
      [] e = "Creation" -> "EventCreateError::IsBeingCreatedByAnotherInstance"
      [] OTHER -> "EventCreateError::UnableToCreateStaticServiceInformation"

\* DynamicCreateErrorOf handing AlreadyExists on under its own name
DynamicCreateErrorOf_KeepsAlreadyExists(e) ==
    CASE e = "AlreadyExists" -> "EventCreateError::AlreadyExists"
      [] OTHER -> "EventCreateError::InternalFailure"

\* create_impl: the error returned for a DynamicStorageCreateError
DynamicCreateErrorOf(e) ==
    CASE e = "AlreadyExists" -> "EventCreateError::OldConnectionsStillActive"
      [] OTHER -> "EventCreateError::InternalFailure"

\* open_or_create: the error returned without calling open or create_impl
OpenOrCreateErrorOf(state) ==
    CASE state = "Corrupted" -> "EventOpenError::EventInCorruptedState"
      [] state = "IncompatibleMessagingPattern" ->
            "EventOpenError::IncompatibleMessagingPattern"
      [] state = "PermissionDenied" -> "EventOpenError::PermissionDenied"

\* FallsBackToOpen without the arm for a creation that is still in progress
FallsBackToOpen_OnlyAlreadyExists(e) ==
    e = "EventCreateError::AlreadyExists"

\* open_or_create: the create_impl errors after which open is called
FallsBackToOpen(e) ==
    e \in {"EventCreateError::AlreadyExists",
           "EventCreateError::IsBeingCreatedByAnotherInstance"}

\* ------------------------------------------------------------------- steps
Finish(p, r) ==
    /\ pc' = [pc EXCEPT ![p] = "done"]
    /\ result' = [result EXCEPT ![p] = r]

Goto(p, l) ==
    /\ pc' = [pc EXCEPT ![p] = l]
    /\ UNCHANGED result

\* a storage operation or a wait of p fails for a reason outside the protocol
Fault(p) == faulted' = [faulted EXCEPT ![p] = TRUE]

\* create_impl returns the error e: create hands it to the caller,
\* open_or_create falls back to open or hands it on
CreateFails(p, e) ==
    /\ create_result' = [create_result EXCEPT ![p] = e]
    /\ IF op[p] = "open_or_create" /\ FallsBackToOpen(e)
       THEN Goto(p, "open")
       ELSE Finish(p, e)

\* open_or_create attempting the creation although another instance creates
open_or_create_CreatesWhileBeingCreated(p) ==
    /\ UNCHANGED <<wsvars, ptvars, dsvars, wnvars>>
    /\ pc[p] = "open_or_create"
    /\ LET s == is_service_available IN
        /\ sample' = [sample EXCEPT ![p] = s]
        /\ IF s = "Some" THEN Goto(p, "open")
           ELSE IF s \in {"None", "IsBeingCreatedByAnotherInstance"}
                THEN Goto(p, "create_impl")
           ELSE Finish(p, OpenOrCreateErrorOf(s))
    /\ UNCHANGED <<env, static, dynamic, op, settings, requested, waited,
                   factory, create_result, faulted>>

\* open_or_create: the first sample and the dispatch on it
open_or_create(p) ==
    /\ UNCHANGED <<wsvars, ptvars, dsvars, wnvars>>
    /\ pc[p] = "open_or_create"
    /\ LET s == is_service_available IN
        /\ sample' = [sample EXCEPT ![p] = s]
        /\ IF s \in {"Some", "IsBeingCreatedByAnotherInstance"} THEN Goto(p, "open")
           ELSE IF s = "None" THEN Goto(p, "create_impl")
           ELSE Finish(p, OpenOrCreateErrorOf(s))
    /\ UNCHANGED <<env, static, dynamic, op, settings, requested, waited,
                   factory, create_result, faulted>>

\* open: AdaptiveWaitBuilder::new().create()
open(p) ==
    /\ UNCHANGED <<wsvars, ptvars, dsvars, wnvars>>
    /\ pc[p] = "open"
    /\ \/ /\ Goto(p, "open_loop")
          /\ UNCHANGED faulted
       \/ /\ Fault(p)
          /\ Finish(p, "EventOpenError::InternalFailure")
    /\ UNCHANGED <<env, static, dynamic, op, settings, requested, waited,
                   sample, factory, create_result>>

\* open_loop handing on the settings of the builder and not those it read
open_loop_KeepsRequested(p) ==
    /\ UNCHANGED <<wsvars, ptvars, dsvars, wnvars>>
    /\ pc[p] = "open_loop"
    /\ LET s == is_service_available IN
        /\ sample' = [sample EXCEPT ![p] = s]
        /\ IF s = "Some" THEN
                LET v == verify_service_properties(settings[p], static.config)
                IN  IF v = "Ok" THEN Goto(p, "open_dynamic") ELSE Finish(p, v)
           ELSE IF s = "IsBeingCreatedByAnotherInstance" THEN Goto(p, "open_wait")
           ELSE Finish(p, OpenErrorOf(s))
        /\ factory' = [factory EXCEPT ![p] =
                         IF s = "Some" THEN ServiceConfig(settings[p]) ELSE @]
    /\ UNCHANGED <<env, static, dynamic, op, settings, requested, waited,
                   create_result, faulted>>

\* open: one iteration of the loop up to its storage operation or wait
open_loop(p) ==
    /\ UNCHANGED <<wsvars, ptvars, dsvars, wnvars>>
    /\ pc[p] = "open_loop"
    /\ LET s == is_service_available IN
        /\ sample' = [sample EXCEPT ![p] = s]
        /\ IF s = "Some" THEN
                LET v == verify_service_properties(settings[p], static.config)
                IN  IF v = "Ok" THEN Goto(p, "open_dynamic") ELSE Finish(p, v)
           ELSE IF s = "IsBeingCreatedByAnotherInstance" THEN Goto(p, "open_wait")
           ELSE Finish(p, OpenErrorOf(s))
        /\ factory' = [factory EXCEPT ![p] =
                         IF s = "Some" THEN static.config ELSE @]
    /\ UNCHANGED <<env, static, dynamic, op, settings, requested, waited,
                   create_result, faulted>>

\* open_wait comparing the time of the last wait alone with the timeout
open_wait_ForgetsElapsed(p) ==
    /\ UNCHANGED <<wsvars, ptvars, dsvars, wnvars>>
    /\ pc[p] = "open_wait"
    /\ \/ \E d \in 1..MaxWaitStep :
            LET timeout == d IN
            /\ waited' = [waited EXCEPT ![p] = timeout]
            /\ IF TimeoutExceeded(timeout)
               THEN Finish(p, "EventOpenError::HangsInCreation")
               ELSE Goto(p, "open_loop")
            /\ UNCHANGED faulted
       \/ /\ Fault(p)
          /\ Finish(p, "EventOpenError::InternalFailure")
          /\ UNCHANGED waited
    /\ UNCHANGED <<env, static, dynamic, op, settings, requested, sample,
                   factory, create_result>>

\* open: adaptive_wait.wait() and the comparison with the creation timeout
open_wait(p) ==
    /\ UNCHANGED <<wsvars, ptvars, dsvars, wnvars>>
    /\ pc[p] = "open_wait"
    /\ \/ \E d \in 1..MaxWaitStep :
            LET timeout == waited[p] + d IN
            /\ waited' = [waited EXCEPT ![p] = timeout]
            /\ IF TimeoutExceeded(timeout)
               THEN Finish(p, "EventOpenError::HangsInCreation")
               ELSE Goto(p, "open_loop")
            /\ UNCHANGED faulted
       \/ /\ Fault(p)
          /\ Finish(p, "EventOpenError::InternalFailure")
          /\ UNCHANGED waited
    /\ UNCHANGED <<env, static, dynamic, op, settings, requested, sample,
                   factory, create_result>>

\* open: base.open_dynamic_config_storage() and the returned factory
open_dynamic(p) ==
    /\ UNCHANGED <<wsvars, ptvars, dsvars, wnvars>>
    /\ pc[p] = "open_dynamic"
    /\ \/ /\ dynamic.exists
          /\ dynamic' = [dynamic EXCEPT !.refs = @ + 1]
          /\ settings' = [settings EXCEPT ![p] =
                [@ EXCEPT !.max_notifiers = factory[p].max_notifiers,
                          !.max_listeners = factory[p].max_listeners,
                          !.event_id_max_value = factory[p].event_id_max_value]]
          /\ Finish(p, "Ok")
          /\ UNCHANGED faulted
       \/ /\ \/ ~dynamic.exists /\ UNCHANGED faulted
             \/ Fault(p)
          /\ Finish(p, "EventOpenError::UnableToOpenDynamicServiceInformation")
          /\ UNCHANGED <<dynamic, settings>>
    /\ UNCHANGED <<env, static, op, requested, waited, sample, factory,
                   create_result>>

\* create_impl: adjust the properties, sample the state
create_impl(p) ==
    /\ UNCHANGED <<wsvars, ptvars, dsvars, wnvars>>
    /\ pc[p] = "create_impl"
    /\ settings' = [settings EXCEPT ![p] = adjust_properties_to_meaningful_values(@)]
    /\ LET s == is_service_available IN
        /\ sample' = [sample EXCEPT ![p] = s]
        /\ IF s = "None"
           THEN Goto(p, "create_static") /\ UNCHANGED create_result
           ELSE CreateFails(p, CreateErrorOf(s))
    /\ UNCHANGED <<env, static, dynamic, op, requested, waited, factory, faulted>>

\* create_static going on with the artifact another creator holds locked
create_static_IgnoresCreationError(p) ==
    /\ UNCHANGED <<wsvars, ptvars, dsvars, wnvars>>
    /\ pc[p] = "create_static"
    /\ \/ /\ create_static_config_storage \in {"Ok", "Creation"}
          /\ static' = [state |-> "Locked", creator |-> p, config |-> NoConfig]
          /\ Goto(p, "create_dynamic")
          /\ UNCHANGED <<create_result, faulted>>
       \/ /\ create_static_config_storage = "AlreadyExists"
          /\ CreateFails(p, StaticCreateErrorOf(create_static_config_storage))
          /\ UNCHANGED <<static, faulted>>
       \/ /\ Fault(p)
          /\ CreateFails(p, StaticCreateErrorOf("InsufficientPermissions"))
          /\ UNCHANGED static
    /\ UNCHANGED <<env, dynamic, op, settings, requested, waited, sample, factory>>

\* create_dynamic unlocking the static storage before the segment is created
create_dynamic_UnlocksFirst(p) ==
    /\ UNCHANGED <<wsvars, ptvars, dsvars, wnvars>>
    /\ pc[p] = "create_dynamic"
    /\ \/ /\ static' = [static EXCEPT !.state = "Sealed",
                                      !.config = ServiceConfig(settings[p])]
          /\ UNCHANGED dynamic
          /\ Goto(p, "create_unlock")
          /\ UNCHANGED <<create_result, faulted>>
       \/ /\ Fault(p)
          /\ DropCreated(p, FALSE)
          /\ CreateFails(p, DynamicCreateErrorOf("InternalError"))
    /\ UNCHANGED <<env, op, settings, requested, waited, sample, factory>>

\* create_impl: base.create_static_config_storage(), the exclusive creation
create_static(p) ==
    /\ UNCHANGED <<wsvars, ptvars, dsvars, wnvars>>
    /\ pc[p] = "create_static"
    /\ \/ /\ create_static_config_storage = "Ok"
          /\ static' = [state |-> "Locked", creator |-> p, config |-> NoConfig]
          /\ Goto(p, "create_dynamic")
          /\ UNCHANGED <<create_result, faulted>>
       \/ /\ create_static_config_storage # "Ok"
          /\ CreateFails(p, StaticCreateErrorOf(create_static_config_storage))
          /\ UNCHANGED <<static, faulted>>
       \/ /\ Fault(p)
          /\ CreateFails(p, StaticCreateErrorOf("InsufficientPermissions"))
          /\ UNCHANGED static
    /\ UNCHANGED <<env, dynamic, op, settings, requested, waited, sample, factory>>

\* create_impl: base.create_dynamic_config_storage(..) sized by the settings
create_dynamic(p) ==
    /\ UNCHANGED <<wsvars, ptvars, dsvars, wnvars>>
    /\ pc[p] = "create_dynamic"
    /\ \/ /\ create_dynamic_config_storage = "Ok"
          /\ dynamic' = [exists |-> TRUE, creator |-> p,
                         number_of_listeners |-> settings[p].max_listeners,
                         number_of_notifiers |-> settings[p].max_notifiers,
                         refs |-> 1]
          /\ Goto(p, "create_unlock")
          /\ UNCHANGED <<static, create_result, faulted>>
       \/ /\ create_dynamic_config_storage # "Ok"
          /\ DropCreated(p, FALSE)
          /\ CreateFails(p, DynamicCreateErrorOf(create_dynamic_config_storage))
          /\ UNCHANGED faulted
       \/ /\ Fault(p)
          /\ DropCreated(p, FALSE)
          /\ CreateFails(p, DynamicCreateErrorOf("InternalError"))
    /\ UNCHANGED <<env, op, settings, requested, waited, sample, factory>>

\* create_impl: serialize the config, unlock the static storage with it,
\* release the ownership and return the factory
create_unlock(p) ==
    /\ UNCHANGED <<wsvars, ptvars, dsvars, wnvars>>
    /\ pc[p] = "create_unlock"
    /\ \/ /\ static' = [static EXCEPT !.state = "Sealed",
                                      !.config = ServiceConfig(settings[p])]
          /\ factory' = [factory EXCEPT ![p] = ServiceConfig(settings[p])]
          /\ create_result' = [create_result EXCEPT ![p] = "Ok"]
          /\ Finish(p, "Ok")
          /\ UNCHANGED <<dynamic, faulted>>
       \/ /\ Fault(p)
          /\ DropCreated(p, TRUE)
          /\ CreateFails(p, "EventCreateError::Corrupted")
          /\ UNCHANGED factory
    /\ UNCHANGED <<env, op, settings, requested, waited, sample>>

\* ---------------------------------------------------- wait set: data model
\* all orders in which the elements of a set can be reported
RECURSIVE Orders(_)
Orders(S) ==
    IF S = {} THEN {<<>>}
    ELSE UNION {{<<x>> \o o : o \in Orders(S \ {x})} : x \in S}

\* AttachmentIdType::Tick(waitset, timer_idx)
AttachmentId_tick(waitset, timer_idx) ==
    [kind |-> "Tick", waitset |-> waitset, fd |-> NoFd, timer |-> timer_idx]

\* AttachmentIdType::Deadline(waitset, reactor_idx, timer_idx)
AttachmentId_deadline(waitset, reactor_idx, timer_idx) ==
    [kind |-> "Deadline", waitset |-> waitset, fd |-> reactor_idx,
     timer |-> timer_idx]

\* AttachmentIdType::Notification(waitset, reactor_idx)
AttachmentId_notification(waitset, reactor_idx) ==
    [kind |-> "Notification", waitset |-> waitset, fd |-> reactor_idx,
     timer |-> NoTimer]

\* GuardType::Tick(timer guard), Deadline(reactor guard, timer guard),
\* Notification(reactor guard), with the WaitSet the Guard refers to
Guard_tick(waitset, t) ==
    [type |-> "Tick", waitset |-> waitset, fd |-> NoFd, timer |-> t]

Guard_deadline(waitset, r, t) ==
    [type |-> "Deadline", waitset |-> waitset, fd |-> r, timer |-> t]

Guard_notification(waitset, r) ==
    [type |-> "Notification", waitset |-> waitset, fd |-> r, timer |-> NoTimer]

\* every Guard a WaitSet can hand out
GuardsOf(waitset) ==
    {Guard_tick(waitset, t) : t \in TimerIndex}
        \cup {Guard_deadline(waitset, r, t) : r \in Fds, t \in TimerIndex}
        \cup {Guard_notification(waitset, r) : r \in Fds}

\* Guard::to_attachment_id
to_attachment_id(g) ==
    CASE g.type = "Tick" -> AttachmentId_tick(g.waitset, g.timer)
      [] g.type = "Deadline" -> AttachmentId_deadline(g.waitset, g.fd, g.timer)
      [] g.type = "Notification" -> AttachmentId_notification(g.waitset, g.fd)

\* originates_from comparing kind, fd and timer index without the WaitSet
originates_from_IgnoresWaitSet(id, other) ==
    LET o == to_attachment_id(other) IN
    id.kind = o.kind /\ id.fd = o.fd /\ id.timer = o.timer

\* AttachmentId::originates_from
originates_from(id, other) == id = to_attachment_id(other)

\* ------------------------------------------- wait set: reactor and timer
\* a timer slot that is not in use
Unarmed == [armed |-> FALSE, period |-> 0, elapsed |-> 0]

\* Timer::cyclic(timeout): the timer a new TimerGuard stands for
Cyclic(timeout) == [armed |-> TRUE, period |-> timeout, elapsed |-> 0]

\* the timers of w whose timeout has been reached and not yet been reported
Fired(w) == {t \in TimerIndex : timer[w][t].armed
                                /\ timer[w][t].elapsed >= timer[w][t].period}

\* Timer::missed_timeouts: every fired cyclic timer is reported and runs on
\* in its period
Rearmed(w) ==
    [t \in TimerIndex |->
        IF t \in Fired(w)
        THEN [timer[w][t] EXCEPT !.elapsed = @ % timer[w][t].period]
        ELSE timer[w][t]]

\* Timer::reset(index)
TimerReset(w, t) == [timer[w] EXCEPT ![t].elapsed = 0]

\* Reactor::attach
reactor_attach(w, fd) ==
    IF fd \in reactor[w] THEN "AlreadyAttached"
    ELSE IF Cardinality(reactor[w]) >= world.capacity THEN "CapacityExceeded"
    ELSE "Ok"

\* WaitSet::len
len(w) == Cardinality(reactor[w])

\* --------------------------------------------------- wait set: pure helpers
\* WaitSet::attach_to_reactor: "Ok" or the WaitSetAttachmentError of a
\* ReactorAttachError
attach_to_reactor(e) ==
    CASE e = "Ok" -> "Ok"
      [] e = "AlreadyAttached" -> "WaitSetAttachmentError::AlreadyAttached"
      [] e = "CapacityExceeded" -> "WaitSetAttachmentError::AlreadyAttached"
      [] e = "UnknownError" -> "WaitSetAttachmentError::InternalError"

\* WaitSet::contains_deadlines
contains_deadlines(w) == deadline_to_timer[w] # {}

\* WaitSet::reset_deadline: the timer index recorded for the fd, or None
reset_deadline(w, reactor_idx) ==
    IF \E e \in deadline_to_timer[w] : e[1] = reactor_idx
    THEN (CHOOSE e \in deadline_to_timer[w] : e[1] = reactor_idx)[2]
    ELSE NoTimer

\* HashMap::insert and HashMap::remove on a map kept as pairs
Insert(map, key, value) == {e \in map : e[1] # key} \cup {<<key, value>>}

\* a remove that leaves the entry of the key in the map
Remove_KeepsEntry(map, key) == map

Remove(map, key) == {e \in map : e[1] # key}

\* WaitErrorOf reporting an interrupt as an internal error
WaitErrorOf_InterruptIsInternalError(e) ==
    CASE e = "Interrupt" -> "Err(WaitSetWaitError::InternalError)"
      [] e = "InsufficientPermissions" ->
            "Err(WaitSetWaitError::InsufficientPermissions)"
      [] e = "UnknownError" -> "Err(WaitSetWaitError::InternalError)"

\* WaitSet::run: the result for an error of Reactor::timed_wait
WaitErrorOf(e) ==
    CASE e = "Interrupt" -> "Ok(WaitEvent::Interrupt)"
      [] e = "InsufficientPermissions" ->
            "Err(WaitSetWaitError::InsufficientPermissions)"
      [] e = "UnknownError" -> "Err(WaitSetWaitError::InternalError)"

\* TickCalls handing out the deadline id for the timer of a deadline
TickCalls_DeadlineIds(w, o) ==
    [i \in 1..Len(o) |->
        IF \E e \in deadline_to_timer[w] : e[2] = o[i]
        THEN AttachmentId_deadline(w,
                (CHOOSE e \in deadline_to_timer[w] : e[2] = o[i])[1], o[i])
        ELSE AttachmentId_tick(w, o[i])]

\* WaitSet::run: the AttachmentIds handed to fn_call by missed_timeouts for the
\* fired timers o
TickCalls(w, o) == [i \in 1..Len(o) |-> AttachmentId_tick(w, o[i])]

\* WaitSet::run: the AttachmentId handed to fn_call for a ready fd
CallIdOf(w, fd, timer_idx) ==
    IF timer_idx # NoTimer
    THEN AttachmentId_deadline(w, fd, timer_idx)
    ELSE AttachmentId_notification(w, fd)

\* ------------------------------------------------------ wait set: steps
\* an attach call or a drop on w: what the last run returned is passed
Forget(w) ==
    /\ fds' = [fds EXCEPT ![w] = <<>>]
    /\ fd_and_timer_idx' = [fd_and_timer_idx EXCEPT ![w] = <<>>]
    /\ missed' = [missed EXCEPT ![w] = {}]
    /\ calls' = [calls EXCEPT ![w] = <<>>]
    /\ run_result' = [run_result EXCEPT ![w] = "none"]
    /\ timed_wait' = [timed_wait EXCEPT ![w] = "none"]

\* neither an attach call nor a drop is the last call on w
NoAttach == [call |-> "none", result |-> "none", len |-> 0, attached |-> FALSE]

\* the attach call or drop c of w with its result as the caller sees it, with
\* len() and whether the object was attached when the call began
Attached(w, c, r, fd) ==
    /\ attach_result' = [attach_result EXCEPT ![w] =
                            [call |-> c, result |-> r, len |-> len(w),
                             attached |-> fd \in reactor[w]]]
    /\ Forget(w)

\* the run call of w returns r
Return(w, r) ==
    /\ run_result' = [run_result EXCEPT ![w] = r]
    /\ wpc' = [wpc EXCEPT ![w] = "idle"]

\* an event becomes pending on an fd
notify(fd) ==
    /\ fd \in world.fds \ ready
    /\ ready' = ready \cup {fd}
    /\ UNCHANGED <<world, termination_requested, reactor, timer,
                   deadline_to_timer, timer_to_deadline, guards, wpc, fds,
                   fd_and_timer_idx, missed, calls, run_result, attach_result,
                   timed_wait>>
    /\ UNCHANGED <<evvars, ptvars, dsvars, wnvars>>

\* the process receives SIGTERM
sigterm ==
    /\ world.waitsets # {}
    /\ ~termination_requested
    /\ termination_requested' = TRUE
    /\ UNCHANGED <<world, ready, reactor, timer, deadline_to_timer,
                   timer_to_deadline, guards, wpc, fds, fd_and_timer_idx,
                   missed, calls, run_result, attach_result, timed_wait>>
    /\ UNCHANGED <<evvars, ptvars, dsvars, wnvars>>

\* one unit of time passes for every timer
pass_time ==
    /\ \E w \in world.waitsets, t \in TimerIndex : timer[w][t].armed
    /\ \A w \in world.waitsets, t \in TimerIndex :
            timer[w][t].armed => timer[w][t].elapsed < MaxElapsed
    /\ timer' = [w \in world.waitsets |-> [t \in TimerIndex |->
                    IF timer[w][t].armed
                    THEN [timer[w][t] EXCEPT !.elapsed = @ + 1]
                    ELSE timer[w][t]]]
    /\ UNCHANGED <<world, termination_requested, ready, reactor,
                   deadline_to_timer, timer_to_deadline, guards, wpc, fds,
                   fd_and_timer_idx, missed, calls, run_result, attach_result,
                   timed_wait>>
    /\ UNCHANGED <<evvars, ptvars, dsvars, wnvars>>

\* WaitSet::notification
notification(w, fd) ==
    /\ w \in world.waitsets /\ wpc[w] = "idle" /\ fd \in world.fds
    /\ \E e \in {reactor_attach(w, fd), "UnknownError"} :
        LET r == attach_to_reactor(e) IN
        /\ Attached(w, "notification", r, fd)
        /\ IF r = "Ok"
           THEN /\ reactor' = [reactor EXCEPT ![w] = @ \cup {fd}]
                /\ guards' = [guards EXCEPT ![w] =
                                @ \cup {Guard_notification(w, fd)}]
           ELSE UNCHANGED <<reactor, guards>>
    /\ UNCHANGED <<world, termination_requested, ready, timer,
                   deadline_to_timer, timer_to_deadline, wpc>>
    /\ UNCHANGED <<evvars, ptvars, dsvars, wnvars>>

\* deadline that keeps the fd attached to the reactor when the timer cannot be
\* armed
deadline_KeepsReactorAttachment(w, fd, d) ==
    /\ w \in world.waitsets /\ wpc[w] = "idle" /\ fd \in world.fds
    /\ d \in world.timeouts
    /\ \E e \in {reactor_attach(w, fd), "UnknownError"} :
        LET r == attach_to_reactor(e) IN
        IF r # "Ok"
        THEN /\ Attached(w, "deadline", r, fd)
             /\ UNCHANGED <<reactor, timer, deadline_to_timer, guards>>
        ELSE \/ \E t \in world.timers :
                    /\ ~timer[w][t].armed
                    /\ timer' = [timer EXCEPT ![w][t] = Cyclic(d)]
                    /\ reactor' = [reactor EXCEPT ![w] = @ \cup {fd}]
                    /\ deadline_to_timer' = [deadline_to_timer EXCEPT ![w] =
                                                Insert(@, fd, t)]
                    /\ guards' = [guards EXCEPT ![w] =
                                    @ \cup {Guard_deadline(w, fd, t)}]
                    /\ Attached(w, "deadline", "Ok", fd)
             \/ /\ Attached(w, "deadline",
                            "WaitSetAttachmentError::InternalError", fd)
                /\ reactor' = [reactor EXCEPT ![w] = @ \cup {fd}]
                /\ UNCHANGED <<timer, deadline_to_timer, guards>>
    /\ UNCHANGED <<world, termination_requested, ready, timer_to_deadline,
                   wpc>>
    /\ UNCHANGED <<evvars, ptvars, dsvars, wnvars>>

\* WaitSet::deadline
deadline(w, fd, d) ==
    /\ w \in world.waitsets /\ wpc[w] = "idle" /\ fd \in world.fds
    /\ d \in world.timeouts
    /\ \E e \in {reactor_attach(w, fd), "UnknownError"} :
        LET r == attach_to_reactor(e) IN
        IF r # "Ok"
        THEN /\ Attached(w, "deadline", r, fd)
             /\ UNCHANGED <<reactor, timer, deadline_to_timer, guards>>
        ELSE \/ \E t \in world.timers :
                    /\ ~timer[w][t].armed
                    /\ timer' = [timer EXCEPT ![w][t] = Cyclic(d)]
                    /\ reactor' = [reactor EXCEPT ![w] = @ \cup {fd}]
                    /\ deadline_to_timer' = [deadline_to_timer EXCEPT ![w] =
                                                Insert(@, fd, t)]
                    /\ guards' = [guards EXCEPT ![w] =
                                    @ \cup {Guard_deadline(w, fd, t)}]
                    /\ Attached(w, "deadline", "Ok", fd)
             \/ /\ Attached(w, "deadline",
                            "WaitSetAttachmentError::InternalError", fd)
                /\ UNCHANGED <<reactor, timer, deadline_to_timer, guards>>
    /\ UNCHANGED <<world, termination_requested, ready, timer_to_deadline,
                   wpc>>
    /\ UNCHANGED <<evvars, ptvars, dsvars, wnvars>>

\* WaitSet::tick
tick(w, d) ==
    /\ w \in world.waitsets /\ wpc[w] = "idle"
    /\ d \in world.timeouts
    /\ \/ \E t \in world.timers :
            /\ ~timer[w][t].armed
            /\ timer' = [timer EXCEPT ![w][t] = Cyclic(d)]
            /\ guards' = [guards EXCEPT ![w] = @ \cup {Guard_tick(w, t)}]
            /\ Attached(w, "tick", "Ok", NoFd)
       \/ /\ Attached(w, "tick", "WaitSetAttachmentError::InternalError", NoFd)
          /\ UNCHANGED <<timer, guards>>
    /\ UNCHANGED <<world, termination_requested, ready, reactor,
                   deadline_to_timer, timer_to_deadline, wpc>>
    /\ UNCHANGED <<evvars, ptvars, dsvars, wnvars>>

\* drop that removes the deadline and leaves the fd attached to the reactor
drop_LeavesReactor(w, g) ==
    /\ w \in world.waitsets /\ wpc[w] = "idle" /\ g \in guards[w]
    /\ guards' = [guards EXCEPT ![w] = @ \ {g}]
    /\ IF g.type = "Deadline"
       THEN /\ deadline_to_timer' = [deadline_to_timer EXCEPT ![w] =
                                        Remove(@, g.fd)]
            /\ timer_to_deadline' = [timer_to_deadline EXCEPT ![w] =
                                        Remove(@, g.timer)]
       ELSE UNCHANGED <<deadline_to_timer, timer_to_deadline>>
    /\ timer' = IF g.timer # NoTimer
                THEN [timer EXCEPT ![w][g.timer] = Unarmed]
                ELSE timer
    /\ Attached(w, "drop", "Ok", g.fd)
    /\ UNCHANGED <<world, termination_requested, ready, wpc, reactor>>
    /\ UNCHANGED <<evvars, ptvars, dsvars, wnvars>>

\* Guard::drop, and the drop of the reactor guard and the timer guard it holds
drop(w, g) ==
    /\ w \in world.waitsets /\ wpc[w] = "idle" /\ g \in guards[w]
    /\ guards' = [guards EXCEPT ![w] = @ \ {g}]
    /\ IF g.type = "Deadline"
       THEN /\ deadline_to_timer' = [deadline_to_timer EXCEPT ![w] =
                                        Remove(@, g.fd)]
            /\ timer_to_deadline' = [timer_to_deadline EXCEPT ![w] =
                                        Remove(@, g.timer)]
       ELSE UNCHANGED <<deadline_to_timer, timer_to_deadline>>
    /\ reactor' = [reactor EXCEPT ![w] = @ \ {g.fd}]
    /\ timer' = IF g.timer # NoTimer
                THEN [timer EXCEPT ![w][g.timer] = Unarmed]
                ELSE timer
    /\ Attached(w, "drop", "Ok", g.fd)
    /\ UNCHANGED <<world, termination_requested, ready, wpc>>
    /\ UNCHANGED <<evvars, ptvars, dsvars, wnvars>>

\* run without the check of the termination request
run_IgnoresTermination(w) ==
    /\ w \in world.waitsets /\ wpc[w] = "idle"
    /\ calls' = [calls EXCEPT ![w] = <<>>]
    /\ fds' = [fds EXCEPT ![w] = <<>>]
    /\ fd_and_timer_idx' = [fd_and_timer_idx EXCEPT ![w] = <<>>]
    /\ missed' = [missed EXCEPT ![w] = {}]
    /\ timed_wait' = [timed_wait EXCEPT ![w] = "none"]
    /\ \/ /\ wpc' = [wpc EXCEPT ![w] = "wait"]
          /\ run_result' = [run_result EXCEPT ![w] = "none"]
       \/ Return(w, "Err(WaitSetWaitError::InternalError)")
    /\ attach_result' = [attach_result EXCEPT ![w] = NoAttach]
    /\ UNCHANGED <<world, termination_requested, ready, reactor, timer,
                   deadline_to_timer, timer_to_deadline, guards>>
    /\ UNCHANGED <<evvars, ptvars, dsvars, wnvars>>

\* WaitSet::run: the entry check and duration_until_next_timeout
run(w) ==
    /\ w \in world.waitsets /\ wpc[w] = "idle"
    /\ calls' = [calls EXCEPT ![w] = <<>>]
    /\ fds' = [fds EXCEPT ![w] = <<>>]
    /\ fd_and_timer_idx' = [fd_and_timer_idx EXCEPT ![w] = <<>>]
    /\ missed' = [missed EXCEPT ![w] = {}]
    /\ timed_wait' = [timed_wait EXCEPT ![w] = "none"]
    /\ IF termination_requested
       THEN Return(w, "Ok(WaitEvent::TerminationRequest)")
       ELSE \/ /\ wpc' = [wpc EXCEPT ![w] = "wait"]
               /\ run_result' = [run_result EXCEPT ![w] = "none"]
            \/ Return(w, "Err(WaitSetWaitError::InternalError)")
    /\ attach_result' = [attach_result EXCEPT ![w] = NoAttach]
    /\ UNCHANGED <<world, termination_requested, ready, reactor, timer,
                   deadline_to_timer, timer_to_deadline, guards>>
    /\ UNCHANGED <<evvars, ptvars, dsvars, wnvars>>

\* WaitSet::run: the return of Reactor::timed_wait; with no ready fd the
\* missed timeouts are reported
run_wait(w) ==
    /\ w \in world.waitsets /\ wpc[w] = "wait"
    /\ missed' = [missed EXCEPT ![w] = Fired(w)]
    /\ LET triggered == reactor[w] \cap ready IN
       \/ /\ triggered # {}
          /\ \E o \in Orders(triggered) : fds' = [fds EXCEPT ![w] = o]
          /\ wpc' = [wpc EXCEPT ![w] =
                        IF contains_deadlines(w) THEN "reset" ELSE "call"]
          /\ timed_wait' = [timed_wait EXCEPT ![w] = "Ok(n)"]
          /\ UNCHANGED <<timer, calls, run_result>>
       \/ /\ triggered = {}
          /\ \E o \in Orders(Fired(w)) :
                calls' = [calls EXCEPT ![w] = TickCalls(w, o)]
          /\ timer' = [timer EXCEPT ![w] = Rearmed(w)]
          /\ Return(w, "Ok(WaitEvent::Tick)")
          /\ timed_wait' = [timed_wait EXCEPT ![w] = "Ok(0)"]
          /\ UNCHANGED fds
       \/ /\ \E e \in {"Interrupt", "InsufficientPermissions", "UnknownError"} :
                /\ Return(w, WaitErrorOf(e))
                /\ timed_wait' = [timed_wait EXCEPT ![w] = e]
          /\ UNCHANGED <<timer, calls, fds>>
    /\ UNCHANGED <<world, termination_requested, ready, reactor,
                   deadline_to_timer, timer_to_deadline, guards,
                   fd_and_timer_idx, attach_result>>
    /\ UNCHANGED <<evvars, ptvars, dsvars, wnvars>>

\* run resetting the deadline of a collected fd and calling fn_call for it in
\* one loop
run_reset_CallsAtOnce(w) ==
    /\ w \in world.waitsets /\ wpc[w] = "reset"
    /\ LET i == Len(fd_and_timer_idx[w]) + 1
           fd == fds[w][i]
           timer_idx == reset_deadline(w, fd)
       IN  \/ /\ timer' = IF timer_idx # NoTimer
                          THEN [timer EXCEPT ![w] = TimerReset(w, timer_idx)]
                          ELSE timer
              /\ fd_and_timer_idx' = [fd_and_timer_idx EXCEPT ![w] =
                                        Append(@, <<fd, timer_idx>>)]
              /\ calls' = [calls EXCEPT ![w] =
                            Append(@, CallIdOf(w, fd, timer_idx))]
              /\ IF i = Len(fds[w])
                 THEN Return(w, "Ok(WaitEvent::Notification)")
                 ELSE UNCHANGED <<wpc, run_result>>
           \/ /\ timer_idx # NoTimer
              /\ Return(w, "Err(WaitSetWaitError::InternalError)")
              /\ UNCHANGED <<timer, fd_and_timer_idx, calls>>
    /\ UNCHANGED <<world, termination_requested, ready, reactor,
                   deadline_to_timer, timer_to_deadline, guards, fds, missed,
                   attach_result, timed_wait>>
    /\ UNCHANGED <<evvars, ptvars, dsvars, wnvars>>

\* WaitSet::run: reset_deadline for the next collected fd
run_reset(w) ==
    /\ w \in world.waitsets /\ wpc[w] = "reset"
    /\ LET i == Len(fd_and_timer_idx[w]) + 1
           fd == fds[w][i]
           timer_idx == reset_deadline(w, fd)
       IN  \/ /\ timer' = IF timer_idx # NoTimer
                          THEN [timer EXCEPT ![w] = TimerReset(w, timer_idx)]
                          ELSE timer
              /\ fd_and_timer_idx' = [fd_and_timer_idx EXCEPT ![w] =
                                        Append(@, <<fd, timer_idx>>)]
              /\ wpc' = [wpc EXCEPT ![w] =
                            IF i = Len(fds[w]) THEN "call" ELSE "reset"]
              /\ UNCHANGED run_result
           \/ /\ timer_idx # NoTimer
              /\ Return(w, "Err(WaitSetWaitError::InternalError)")
              /\ UNCHANGED <<timer, fd_and_timer_idx>>
    /\ UNCHANGED <<world, termination_requested, ready, reactor,
                   deadline_to_timer, timer_to_deadline, guards, fds, missed,
                   calls, attach_result, timed_wait>>
    /\ UNCHANGED <<evvars, ptvars, dsvars, wnvars>>

\* WaitSet::run: fn_call for the next collected fd; the callback may take the
\* pending event from the fd
run_call(w) ==
    /\ w \in world.waitsets /\ wpc[w] = "call"
    /\ LET i == Len(calls[w]) + 1
           fd == fds[w][i]
           id == IF fd_and_timer_idx[w] # <<>>
                 THEN CallIdOf(w, fd, fd_and_timer_idx[w][i][2])
                 ELSE AttachmentId_notification(w, fd)
       IN  /\ calls' = [calls EXCEPT ![w] = Append(@, id)]
           /\ ready' \in {ready, ready \ {fd}}
           /\ IF i = Len(fds[w])
              THEN Return(w, "Ok(WaitEvent::Notification)")
              ELSE UNCHANGED <<wpc, run_result>>
    /\ UNCHANGED <<world, termination_requested, reactor, timer,
                   deadline_to_timer, timer_to_deadline, guards, fds,
                   fd_and_timer_idx, missed, attach_result, timed_wait>>
    /\ UNCHANGED <<evvars, ptvars, dsvars, wnvars>>

\* ------------------------------------------------------ ports: data model
\* the EventIds a caller can hand to notify: one of them is above every
\* event_id_max_value a service can have
EventIds == 0..(MaxEventId + 1)

\* a slot that no port has claimed
FreeSlot(generation) ==
    [state |-> "free", generation |-> generation, owner |-> NoOwner,
     id |-> NoId]

\* the token of the port in slot i of the registry of kind k: the slot, its
\* generation and the UniqueId of the port
Port(k, i, slot) ==
    [kind |-> k, slot |-> i, generation |-> slot.generation, id |-> slot.id]

NoPort == [kind |-> "none", slot |-> 0, generation |-> 0, id |-> NoId]

\* DynamicConfigSettings: the capacity of the registry of a port kind
capacity_of(k) ==
    IF k = "listener" THEN dynamic.number_of_listeners
    ELSE dynamic.number_of_notifiers

\* the locals of a call on a port
NoLocal ==
    [kind |-> "none", purpose |-> "none", i |-> 0, seen |-> FreeSlot(0),
     e |-> 0, snapshot |-> <<>>, registered |-> {}, reached |-> {}]

\* what the call c on a port of kind k returned
Result(c, k, r) ==
    [call |-> c, kind |-> k, result |-> r, port |-> NoPort, e |-> 0,
     snapshot |-> <<>>, registered |-> {}, reached |-> {}, yielded |-> <<>>]

NoResult == Result("none", "none", "none")

\* a process without calls on ports
NoProgram == [calls |-> {}, kinds |-> {}]

\* the error of a port creation that finds no free slot
ExceedsMaxSupported(k) ==
    IF k = "listener"
    THEN "ListenerCreateError::ExceedsMaxSupportedListeners"
    ELSE "NotifierCreateError::ExceedsMaxSupportedNotifiers"

\* the bound of notify that refuses event_id_max_value itself
EventIdOutOfBounds_Exclusive(e) == e >= static.config.event_id_max_value

\* Notifier::notify: the EventId is above event_id_max_value of the service
EventIdOutOfBounds(e) == e > static.config.event_id_max_value

\* sem_post: the semaphore counts up to its maximal value
Post(n) == IF n < MaxPosts THEN n + 1 ELSE n

\* sem_trywait
TryWait(n) == IF n > 0 THEN n - 1 ELSE 0

\* a set of EventIds in the order of the ids
RECURSIVE Ascending(_)
Ascending(S) ==
    IF S = {} THEN <<>>
    ELSE LET m == CHOOSE x \in S : \A y \in S : x <= y
         IN  <<m>> \o Ascending(S \ {m})

\* the tokens of the slots of a registry that are live
Live(k) ==
    {Port(k, i, registry[k][i]) :
        i \in {j \in DOMAIN registry[k] : registry[k][j].state = "live"}}

\* the reaper's compare-and-swap live -> releasing that ignores the generation
\* of the slot it has seen
CanReap_IgnoresGeneration(slot, seen) == slot.state = "live"

\* the reaper's compare-and-swap live -> releasing succeeds on the slot it has
\* seen: the state word carries the generation of the slot
CanReap(slot, seen) ==
    slot.state = "live" /\ slot.generation = seen.generation

\* the enumeration accepting every slot it has seen live
Unchanged_Always(slot, seen) == TRUE

\* the enumeration accepts a slot that it has seen live if the generation of
\* the slot is unchanged
Unchanged(slot, seen) == slot.generation = seen.generation

\* ----------------------------------------------------------- ports: steps
\* the call of p on a port returns r
Returns(p, r) ==
    /\ ppc' = [ppc EXCEPT ![p] = "idle"]
    /\ local' = [local EXCEPT ![p] = NoLocal]
    /\ presult' = [presult EXCEPT ![p] = r]

\* the call of p goes on at the position c with the locals l
Continues(p, c, l) ==
    /\ ppc' = [ppc EXCEPT ![p] = c]
    /\ local' = [local EXCEPT ![p] = l]
    /\ presult' = [presult EXCEPT ![p] = NoResult]

\* p is about to make the call c of its program
Calling(p, c) == alive[p] /\ ppc[p] = "idle" /\ c \in program[p].calls

\* the ports of kind k that p holds in slot i
Held(p, k, i) == {port \in ports[p] : port.kind = k /\ port.slot = i}

\* the cleanup hook of the port in slot i (a listener's semaphore and ring are
\* removed), and the slot becomes free in its next generation
Freed(k, i) ==
    /\ registry' = [registry EXCEPT ![k][i] = FreeSlot(@.generation + 1)]
    /\ hooks' = [hooks EXCEPT ![k][i] = @ + 1]
    /\ IF k = "listener"
       THEN /\ ring' = [ring EXCEPT ![i] = {}]
            /\ semaphore' = [semaphore EXCEPT ![i] = 0]
            /\ owed' = [owed EXCEPT ![i] = {}]
       ELSE UNCHANGED <<ring, semaphore, owed>>

\* ClaimAt writing the owner's process id as the UniqueId of the port
ClaimAt_IdOfOwner(p, l) ==
    LET k == l.kind
        i == l.i
    IN  IF i > capacity_of(k)
        THEN /\ Returns(p, Result("create", k, ExceedsMaxSupported(k)))
             /\ UNCHANGED <<registry, ids, hooks>>
        ELSE IF registry[k][i].state = "free"
        THEN /\ registry[k][i].generation < MaxGeneration
             /\ ids < MaxIds
             /\ registry' = [registry EXCEPT ![k][i] =
                                [state |-> "claiming",
                                 generation |-> @.generation,
                                 owner |-> p, id |-> p]]
             /\ ids' = ids + 1
             /\ hooks' = [hooks EXCEPT ![k][i] = 0]
             /\ Continues(p, "publish", l)
        ELSE /\ Continues(p, "claim", [l EXCEPT !.i = i + 1])
             /\ UNCHANGED <<registry, ids, hooks>>

\* ClaimAt that never looks at the last slot of a registry of several slots
ClaimAt_LastSlotUnused(p, l) ==
    LET k == l.kind
        i == l.i
    IN  IF i > capacity_of(k) \/ (i = capacity_of(k) /\ i > 1)
        THEN /\ Returns(p, Result("create", k, ExceedsMaxSupported(k)))
             /\ UNCHANGED <<registry, ids, hooks>>
        ELSE IF registry[k][i].state = "free"
        THEN /\ registry[k][i].generation < MaxGeneration
             /\ ids < MaxIds
             /\ registry' = [registry EXCEPT ![k][i] =
                                [state |-> "claiming",
                                 generation |-> @.generation,
                                 owner |-> p, id |-> ids + 1]]
             /\ ids' = ids + 1
             /\ hooks' = [hooks EXCEPT ![k][i] = 0]
             /\ Continues(p, "publish", l)
        ELSE /\ Continues(p, "claim", [l EXCEPT !.i = i + 1])
             /\ UNCHANGED <<registry, ids, hooks>>

\* port creation at slot l.i: the compare-and-swap free -> claiming, with the
\* owner and the UniqueId written to the claimed slot; without a free slot the
\* creation fails
ClaimAt(p, l) ==
    LET k == l.kind
        i == l.i
    IN  IF i > capacity_of(k)
        THEN /\ Returns(p, Result("create", k, ExceedsMaxSupported(k)))
             /\ UNCHANGED <<registry, ids, hooks>>
        ELSE IF registry[k][i].state = "free"
        THEN /\ registry[k][i].generation < MaxGeneration
             /\ ids < MaxIds
             /\ registry' = [registry EXCEPT ![k][i] =
                                [state |-> "claiming",
                                 generation |-> @.generation,
                                 owner |-> p, id |-> ids + 1]]
             /\ ids' = ids + 1
             /\ hooks' = [hooks EXCEPT ![k][i] = 0]
             /\ Continues(p, "publish", l)
        ELSE /\ Continues(p, "claim", [l EXCEPT !.i = i + 1])
             /\ UNCHANGED <<registry, ids, hooks>>

\* a scan is done with slot l.i: it goes to the next slot; after the last slot
\* an enumeration returns its snapshot and notify delivers to it
NextSlot(p, l) ==
    IF l.i < capacity_of(l.kind)
    THEN Continues(p, "scan", [l EXCEPT !.i = @ + 1])
    ELSE IF l.purpose = "list"
    THEN Returns(p, [Result("list", l.kind, "Ok") EXCEPT
                        !.snapshot = l.snapshot])
    ELSE IF l.snapshot = <<>>
    THEN Returns(p, [Result("notify", "notifier", "Ok") EXCEPT
                        !.e = l.e, !.registered = l.registered])
    ELSE Continues(p, "deliver", [l EXCEPT !.i = 1])

\* a scan reads slot l.i: a slot that is not live is passed
ReadSlot(p, l) ==
    IF registry[l.kind][l.i].state = "live"
    THEN Continues(p, "check", [l EXCEPT !.seen = registry[l.kind][l.i]])
    ELSE NextSlot(p, l)

\* ---------------------------------------------------------- ports: actions
\* the process p is killed: what it holds in its memory is gone, what it
\* wrote to the dynamic config stays
kill(p) ==
    /\ alive[p] /\ "kill" \in program[p].calls
    /\ alive' = [alive EXCEPT ![p] = FALSE]
    /\ ports' = [ports EXCEPT ![p] = {}]
    /\ ppc' = [ppc EXCEPT ![p] = "dead"]
    /\ local' = [local EXCEPT ![p] = NoLocal]
    /\ presult' = [presult EXCEPT ![p] = NoResult]
    /\ UNCHANGED <<program, registry, ring, semaphore, ids, hooks, owed>>
    /\ UNCHANGED <<evvars, wsvars, dsvars, wnvars>>

\* listener_builder().create() and notifier_builder().create(): the search
\* for a free slot begins at the first slot
create_port(p, k) ==
    /\ Calling(p, "create") /\ k \in program[p].kinds
    /\ ClaimAt(p, [NoLocal EXCEPT !.kind = k, !.i = 1])
    /\ UNCHANGED <<alive, program, ring, semaphore, ports, owed>>
    /\ UNCHANGED <<evvars, wsvars, dsvars, wnvars>>

\* port creation: the search goes on
claim(p) ==
    /\ alive[p] /\ ppc[p] = "claim"
    /\ ClaimAt(p, local[p])
    /\ UNCHANGED <<alive, program, ring, semaphore, ports, owed>>
    /\ UNCHANGED <<evvars, wsvars, dsvars, wnvars>>

\* port creation: the liveness token is written last, the port exists
publish(p) ==
    /\ alive[p] /\ ppc[p] = "publish"
    /\ LET k == local[p].kind
           i == local[p].i
           port == Port(k, i, registry[k][i])
       IN  /\ registry' = [registry EXCEPT ![k][i].state = "live"]
           /\ ports' = [ports EXCEPT ![p] = @ \cup {port}]
           /\ Returns(p, [Result("create", k, "Ok") EXCEPT !.port = port])
    /\ UNCHANGED <<alive, program, ring, semaphore, ids, hooks, owed>>
    /\ UNCHANGED <<evvars, wsvars, dsvars, wnvars>>

\* the drop of a port: the liveness token is cleared first
drop_port(p, k, i) ==
    /\ Calling(p, "drop")
    /\ \E port \in Held(p, k, i) :
        /\ ports' = [ports EXCEPT ![p] = @ \ {port}]
        /\ IF registry[k][i].state = "live" /\ registry[k][i].id = port.id
           THEN /\ registry' = [registry EXCEPT ![k][i].state = "releasing"]
                /\ Continues(p, "release",
                             [NoLocal EXCEPT !.kind = k, !.i = i])
           ELSE /\ Returns(p, Result("drop", k, "Ok"))
                /\ UNCHANGED registry
    /\ UNCHANGED <<alive, program, ring, semaphore, ids, hooks, owed>>
    /\ UNCHANGED <<evvars, wsvars, dsvars, wnvars>>

\* the drop of a port: the cleanup, then the slot is free
release(p) ==
    /\ alive[p] /\ ppc[p] = "release"
    /\ Freed(local[p].kind, local[p].i)
    /\ Returns(p, Result("drop", local[p].kind, "Ok"))
    /\ UNCHANGED <<alive, program, ports, ids>>
    /\ UNCHANGED <<evvars, wsvars, dsvars, wnvars>>

\* the enumeration of the ports of a kind begins at the first slot
list_ports(p, k) ==
    /\ Calling(p, "list") /\ k \in program[p].kinds
    /\ ReadSlot(p, [NoLocal EXCEPT !.kind = k, !.purpose = "list", !.i = 1])
    /\ UNCHANGED <<alive, program, registry, ring, semaphore, ports, ids,
                   hooks, owed>>
    /\ UNCHANGED <<evvars, wsvars, dsvars, wnvars>>

\* Notifier::notify: the bound of the EventId, then the scan of the listener
\* registry begins
Notifier_notify(p, i, e) ==
    /\ Calling(p, "notify") /\ Held(p, "notifier", i) # {}
    /\ IF EventIdOutOfBounds(e)
       THEN Returns(p, [Result("notify", "notifier",
                               "NotifierNotifyError::EventIdOutOfBounds")
                            EXCEPT !.e = e])
       ELSE ReadSlot(p, [NoLocal EXCEPT !.kind = "listener",
                                        !.purpose = "notify", !.i = 1,
                                        !.e = e,
                                        !.registered = Live("listener")])
    /\ UNCHANGED <<alive, program, registry, ring, semaphore, ports, ids,
                   hooks, owed>>
    /\ UNCHANGED <<evvars, wsvars, dsvars, wnvars>>

\* a scan reads the next slot
scan(p) ==
    /\ alive[p] /\ ppc[p] = "scan"
    /\ ReadSlot(p, local[p])
    /\ UNCHANGED <<alive, program, registry, ring, semaphore, ports, ids,
                   hooks, owed>>
    /\ UNCHANGED <<evvars, wsvars, dsvars, wnvars>>

\* a scan has seen a live slot: if the owner is gone it tries to reap the
\* slot, else it accepts the slot if its generation is unchanged
check(p) ==
    /\ alive[p] /\ ppc[p] = "check"
    /\ LET l == local[p]
           slot == registry[l.kind][l.i]
       IN  IF ~alive[l.seen.owner]
           THEN IF CanReap(slot, l.seen)
                THEN /\ registry' = [registry EXCEPT
                                        ![l.kind][l.i].state = "releasing"]
                     /\ Continues(p, "reap", l)
                ELSE /\ NextSlot(p, l)
                     /\ UNCHANGED registry
           ELSE /\ IF Unchanged(slot, l.seen)
                   THEN NextSlot(p, [l EXCEPT !.snapshot =
                                        Append(@, Port(l.kind, l.i, l.seen))])
                   ELSE NextSlot(p, l)
                /\ UNCHANGED registry
    /\ UNCHANGED <<alive, program, ring, semaphore, ports, ids, hooks, owed>>
    /\ UNCHANGED <<evvars, wsvars, dsvars, wnvars>>

\* the reaper runs the cleanup hook of the port and frees the slot
reap(p) ==
    /\ alive[p] /\ ppc[p] = "reap"
    /\ Freed(local[p].kind, local[p].i)
    /\ NextSlot(p, local[p])
    /\ UNCHANGED <<alive, program, ports, ids>>
    /\ UNCHANGED <<evvars, wsvars, dsvars, wnvars>>

\* Notifier::notify: the EventId is published into the ring of the next
\* listener of the snapshot and its semaphore is posted once
deliver(p) ==
    /\ alive[p] /\ ppc[p] = "deliver"
    /\ LET l == local[p]
           to == l.snapshot[l.i]
           slot == registry["listener"][to.slot]
           there == slot.state = "live" /\ slot.generation = to.generation
           reached == IF there THEN l.reached \cup {to} ELSE l.reached
       IN  /\ IF there
              THEN /\ ring' = [ring EXCEPT ![to.slot] = @ \cup {l.e}]
                   /\ semaphore' = [semaphore EXCEPT ![to.slot] = Post(@)]
                   /\ owed' = [owed EXCEPT ![to.slot] = @ \cup {l.e}]
              ELSE UNCHANGED <<ring, semaphore, owed>>
           /\ IF l.i < Len(l.snapshot)
              THEN Continues(p, "deliver",
                             [l EXCEPT !.i = @ + 1, !.reached = reached])
              ELSE Returns(p, [Result("notify", "notifier", "Ok") EXCEPT
                                !.e = l.e, !.registered = l.registered,
                                !.reached = reached])
    /\ UNCHANGED <<alive, program, registry, ports, ids, hooks>>
    /\ UNCHANGED <<evvars, wsvars, dsvars, wnvars>>

\* try_wait_all handing every pending EventId to the callback once per
\* pending post of the semaphore
try_wait_all_OncePerPost(p, i) ==
    /\ Calling(p, "try_wait_all")
    /\ \E port \in Held(p, "listener", i) :
        Returns(p, [Result("try_wait_all", "listener", "Ok") EXCEPT
                        !.port = port,
                        !.yielded = IF semaphore[i] > 1
                                    THEN Ascending(ring[i]) \o Ascending(ring[i])
                                    ELSE Ascending(ring[i])])
    /\ ring' = [ring EXCEPT ![i] = {}]
    /\ owed' = [owed EXCEPT ![i] = @ \ ring[i]]
    /\ semaphore' = [semaphore EXCEPT ![i] = TryWait(@)]
    /\ UNCHANGED <<alive, program, registry, ports, ids, hooks>>
    /\ UNCHANGED <<evvars, wsvars, dsvars, wnvars>>

\* try_wait_all taking one pending EventId and clearing the whole ring
try_wait_all_YieldsOne(p, i) ==
    /\ Calling(p, "try_wait_all")
    /\ \E port \in Held(p, "listener", i) :
       \E y \in {<<e>> : e \in ring[i]} \cup {s \in {<<>>} : ring[i] = {}} :
        /\ ring' = [ring EXCEPT ![i] = {}]
        /\ owed' = [owed EXCEPT ![i] = @ \ {y[j] : j \in DOMAIN y}]
        /\ Returns(p, [Result("try_wait_all", "listener", "Ok") EXCEPT
                            !.port = port, !.yielded = y])
    /\ semaphore' = [semaphore EXCEPT ![i] = TryWait(@)]
    /\ UNCHANGED <<alive, program, registry, ports, ids, hooks>>
    /\ UNCHANGED <<evvars, wsvars, dsvars, wnvars>>

\* Listener::try_wait_all: the pending set is taken from the ring at once and
\* every id of it is handed to the callback
try_wait_all(p, i) ==
    /\ Calling(p, "try_wait_all")
    /\ \E port \in Held(p, "listener", i) :
        Returns(p, [Result("try_wait_all", "listener", "Ok") EXCEPT
                        !.port = port, !.yielded = Ascending(ring[i])])
    /\ ring' = [ring EXCEPT ![i] = {}]
    /\ owed' = [owed EXCEPT ![i] = @ \ ring[i]]
    /\ semaphore' = [semaphore EXCEPT ![i] = TryWait(@)]
    /\ UNCHANGED <<alive, program, registry, ports, ids, hooks>>
    /\ UNCHANGED <<evvars, wsvars, dsvars, wnvars>>

\* Listener::try_wait_one: the next id of the ring, or None
try_wait_one(p, i) ==
    /\ Calling(p, "try_wait_one")
    /\ Held(p, "listener", i) # {}
    /\ semaphore' = [semaphore EXCEPT ![i] = TryWait(@)]
    /\ \E port \in Held(p, "listener", i) :
        IF ring[i] = {}
        THEN /\ Returns(p, [Result("try_wait_one", "listener", "None") EXCEPT
                                !.port = port])
             /\ UNCHANGED <<ring, owed>>
        ELSE \E e \in ring[i] :
             /\ ring' = [ring EXCEPT ![i] = @ \ {e}]
             /\ owed' = [owed EXCEPT ![i] = @ \ {e}]
             /\ Returns(p, [Result("try_wait_one", "listener", "Some") EXCEPT
                                !.port = port, !.yielded = <<e>>])
    /\ UNCHANGED <<alive, program, registry, ports, ids, hooks>>
    /\ UNCHANGED <<evvars, wsvars, dsvars, wnvars>>

\* ------------------------------------------------------- dynamic storage
\* the header of an object that does not exist (yet)
NoShm == [refcount |-> 0, unlinks |-> 0]

\* a process without handle to the dynamic storage
NoHandle == [state |-> "none", object |-> NoObject]

\* the handles that are open on the object o
OpenHandles(o) ==
    {p \in Peers : storage[p].state = "open" /\ storage[p].object = o}

\* the creator of the dynamic storage: a new object under the name, with
\* the handle of the creator as its first reference
storage_create(p) ==
    /\ storage[p] = NoHandle
    /\ shm_name = NoObject
    /\ created < MaxObjects
    /\ created' = created + 1
    /\ shm_name' = created + 1
    /\ shm' = [shm EXCEPT ![created + 1] = [refcount |-> 1, unlinks |-> 0]]
    /\ storage' = [storage EXCEPT ![p] =
                    [state |-> "open", object |-> created + 1]]
    /\ UNCHANGED <<evvars, wsvars, ptvars, wnvars>>

\* Open: the object that the name resolves to is mapped
storage_open(p) ==
    /\ storage[p] = NoHandle
    /\ shm_name # NoObject
    /\ storage' = [storage EXCEPT ![p] =
                    [state |-> "mapped", object |-> shm_name]]
    /\ UNCHANGED <<shm_name, shm, created>>
    /\ UNCHANGED <<evvars, wsvars, ptvars, wnvars>>

\* Open: magic and version are verified, the reference count is incremented
\* and the handle is open
storage_verify(p) ==
    /\ storage[p].state = "mapped"
    /\ shm' = [shm EXCEPT ![storage[p].object].refcount = @ + 1]
    /\ storage' = [storage EXCEPT ![p].state = "open"]
    /\ UNCHANGED <<shm_name, created>>
    /\ UNCHANGED <<evvars, wsvars, ptvars, wnvars>>

\* Destroy: the atomic decrement; the handle that reads zero goes on to
\* unlink
storage_destroy(p) ==
    /\ storage[p].state = "open"
    /\ shm' = [shm EXCEPT ![storage[p].object].refcount = @ - 1]
    /\ storage' = [storage EXCEPT ![p] =
                    IF shm[storage[p].object].refcount = 1
                    THEN [@ EXCEPT !.state = "zero"]
                    ELSE NoHandle]
    /\ UNCHANGED <<shm_name, created>>
    /\ UNCHANGED <<evvars, wsvars, ptvars, wnvars>>

\* Destroy: the decrementer that dropped the count to zero unlinks what the
\* name resolves to
storage_unlink(p) ==
    /\ storage[p].state = "zero"
    /\ IF shm_name = NoObject
       THEN UNCHANGED <<shm_name, shm>>
       ELSE /\ shm_name' = NoObject
            /\ shm' = [shm EXCEPT ![shm_name].unlinks = @ + 1]
    /\ storage' = [storage EXCEPT ![p] = NoHandle]
    /\ UNCHANGED created
    /\ UNCHANGED <<evvars, wsvars, ptvars, wnvars>>

\* -------------------------------------------------- posix shim (windows)
\* the kinds of FdHandleEntry; an fd that the HandleTranslator does not
\* know has the entry "None"
EntryKinds == {"SharedMemory", "File", "Socket", "UdsDatagramSocket"}

\* the values of Errno that the shim and win32call! leave in errno
Errnos == {"ESUCCES", "EBADF", "EINVAL", "EACCES"}

NoCall == [call |-> "none", fd |-> 0, value |-> 0]

\* the call c with the fd returns the value v
Called(c, fd, v) == shim' = [call |-> c, fd |-> fd, value |-> v]

\* win32call!: the Win32 function is called, errno holds the translation of
\* its last error afterwards
win32call == errno' \in Errnos

\* the entry kinds for which the call c has a match arm of its own
Supported(c) ==
    CASE c = "close" -> EntryKinds
      [] c = "ftruncate" -> {"SharedMemory", "File"}
      [] OTHER -> {"File"}

\* HandleTranslator::add: a file, shared memory or socket is opened and gets
\* an fd
HandleTranslator_add(fd, kind) ==
    /\ table[fd] = "None"
    /\ table' = [table EXCEPT ![fd] = kind]
    /\ Called("add", fd, fd)
    /\ UNCHANGED errno
    /\ UNCHANGED <<evvars, wsvars, ptvars, dsvars>>

\* Errno::reset
Errno_reset ==
    /\ errno' = "ESUCCES"
    /\ Called("reset", 0, 0)
    /\ UNCHANGED table
    /\ UNCHANGED <<evvars, wsvars, ptvars, dsvars>>

\* close: the entry of a datagram socket stays in the HandleTranslator
close(fd) ==
    /\ IF table[fd] \in {"SharedMemory", "File", "Socket"}
       THEN /\ win32call
            /\ table' = [table EXCEPT ![fd] = "None"]
            /\ Called("close", fd, 0)
       ELSE IF table[fd] = "UdsDatagramSocket"
       THEN /\ win32call
            /\ UNCHANGED table
            /\ Called("close", fd, 0)
       ELSE /\ errno' = "EBADF"
            /\ UNCHANGED table
            /\ Called("close", fd, -1)
    /\ UNCHANGED <<evvars, wsvars, ptvars, dsvars>>

\* read: ReadFile on a file, of count bytes at most
read(fd, count) ==
    /\ IF table[fd] = "File"
       THEN /\ win32call
            /\ \E v \in {-1} \cup 0..count : Called("read", fd, v)
       ELSE /\ errno' = "EBADF"
            /\ Called("read", fd, -1)
    /\ UNCHANGED table
    /\ UNCHANGED <<evvars, wsvars, ptvars, dsvars>>

\* write: WriteFile on a file, of count bytes at most
write(fd, count) ==
    /\ IF table[fd] = "File"
       THEN /\ win32call
            /\ \E v \in {-1} \cup 0..count : Called("write", fd, v)
       ELSE /\ errno' = "EBADF"
            /\ Called("write", fd, -1)
    /\ UNCHANGED table
    /\ UNCHANGED <<evvars, wsvars, ptvars, dsvars>>

\* lseek: an unknown whence returns -1 and leaves errno alone
lseek(fd, whence) ==
    /\ IF table[fd] = "File"
       THEN IF whence \notin {"SEEK_SET", "SEEK_CUR", "SEEK_END"}
            THEN /\ Called("lseek", fd, -1)
                 /\ UNCHANGED errno
            ELSE /\ win32call
                 /\ \E new_position \in {-1, 0, 1} :
                        Called("lseek", fd, new_position)
       ELSE /\ errno' = "EBADF"
            /\ Called("lseek", fd, -1)
    /\ UNCHANGED table
    /\ UNCHANGED <<evvars, wsvars, ptvars, dsvars>>

\* ftruncate: the length is looked at first; an fd without usable entry
\* sets EBADF and returns 0
ftruncate(fd, length) ==
    /\ IF length < 0
       THEN /\ errno' = "EINVAL"
            /\ Called("ftruncate", fd, -1)
       ELSE IF table[fd] = "SharedMemory"
       THEN /\ UNCHANGED errno
            /\ Called("ftruncate", fd, 0)
       ELSE IF table[fd] = "File"
       THEN /\ win32call
            /\ Called("ftruncate", fd, 0)
       ELSE /\ errno' = "EBADF"
            /\ Called("ftruncate", fd, 0)
    /\ UNCHANGED table
    /\ UNCHANGED <<evvars, wsvars, ptvars, dsvars>>

\* fsync: FlushFileBuffers on a file
fsync(fd) ==
    /\ IF table[fd] = "File"
       THEN /\ win32call
            /\ Called("fsync", fd, 0)
       ELSE /\ errno' = "EBADF"
            /\ Called("fsync", fd, -1)
    /\ UNCHANGED table
    /\ UNCHANGED <<evvars, wsvars, ptvars, dsvars>>

\* ----------------------------------------------------------- specification
\* the state every call starts from, given the namespace, the entry points and
\* the builders
Start(e, d, o, b) ==
    /\ env = e
    /\ static = AbsentStatic
    /\ dynamic = d
    /\ op = o
    /\ pc = [p \in Procs |-> IF o[p] = "create" THEN "create_impl" ELSE o[p]]
    /\ settings = b
    /\ requested = b
    /\ waited = [p \in Procs |-> 0]
    /\ sample = [p \in Procs |-> "none"]
    /\ result = [p \in Procs |-> "none"]
    /\ factory = [p \in Procs |-> NoConfig]
    /\ create_result = [p \in Procs |-> "none"]
    /\ faulted = [p \in Procs |-> FALSE]

\* the state of the WaitSets of a process that consists of the WaitSets ws
\* and the fds f, with reactors of capacity c, timers of the indices ts and
\* the timeouts ds
StartWaitSets(ws, f, c, ts, ds) ==
    /\ world = [waitsets |-> ws, fds |-> f, capacity |-> c, timers |-> ts,
                timeouts |-> ds]
    /\ termination_requested = FALSE
    /\ ready = {}
    /\ reactor = [w \in ws |-> {}]
    /\ timer = [w \in ws |-> [t \in TimerIndex |-> Unarmed]]
    /\ deadline_to_timer = [w \in ws |-> {}]
    /\ timer_to_deadline = [w \in ws |-> {}]
    /\ guards = [w \in ws |-> {}]
    /\ wpc = [w \in ws |-> "idle"]
    /\ fds = [w \in ws |-> <<>>]
    /\ fd_and_timer_idx = [w \in ws |-> <<>>]
    /\ missed = [w \in ws |-> {}]
    /\ calls = [w \in ws |-> <<>>]
    /\ run_result = [w \in ws |-> "none"]
    /\ attach_result = [w \in ws |-> NoAttach]
    /\ timed_wait = [w \in ws |-> "none"]

\* a process without a WaitSet
NoWaitSets == StartWaitSets({}, {}, 0, {}, {})

\* no call of the service builder
NoCalls == Start("ok", NoDynamic, [p \in Procs |-> "idle"],
                 [p \in Procs |-> NewBuilder])

\* the service as process 1 has created it with the builder b: the static
\* config is sealed and the dynamic config holds a registry per port kind
Created(b) ==
    LET s == adjust_properties_to_meaningful_values(b) IN
    /\ env = "ok"
    /\ static = [state |-> "Sealed", creator |-> 1, config |-> ServiceConfig(s)]
    /\ dynamic = [exists |-> TRUE, creator |-> 1,
                  number_of_listeners |-> s.max_listeners,
                  number_of_notifiers |-> s.max_notifiers, refs |-> 1]
    /\ op = [p \in Procs |-> IF p = 1 THEN "create" ELSE "idle"]
    /\ pc = [p \in Procs |-> IF p = 1 THEN "done" ELSE "idle"]
    /\ settings = [p \in Procs |-> IF p = 1 THEN s ELSE NewBuilder]
    /\ requested = [p \in Procs |-> IF p = 1 THEN b ELSE NewBuilder]
    /\ waited = [p \in Procs |-> 0]
    /\ sample = [p \in Procs |-> "none"]
    /\ result = [p \in Procs |-> IF p = 1 THEN "Ok" ELSE "none"]
    /\ factory = [p \in Procs |-> IF p = 1 THEN ServiceConfig(s) ELSE NoConfig]
    /\ create_result = [p \in Procs |-> IF p = 1 THEN "Ok" ELSE "none"]
    /\ faulted = [p \in Procs |-> FALSE]

\* no port exists in registries of nl listener slots and nn notifier slots,
\* and the processes run the programs pr
StartPorts(pr, nl, nn) ==
    /\ alive = [p \in Peers |-> TRUE]
    /\ program = pr
    /\ registry = [k \in Kinds |->
                    [i \in 1..(IF k = "listener" THEN nl ELSE nn) |->
                        FreeSlot(0)]]
    /\ ring = [i \in 1..nl |-> {}]
    /\ semaphore = [i \in 1..nl |-> 0]
    /\ owed = [i \in 1..nl |-> {}]
    /\ hooks = [k \in Kinds |->
                    [i \in 1..(IF k = "listener" THEN nl ELSE nn) |-> 0]]
    /\ ports = [p \in Peers |-> {}]
    /\ ppc = [p \in Peers |-> "idle"]
    /\ local = [p \in Peers |-> NoLocal]
    /\ presult = [p \in Peers |-> NoResult]
    /\ ids = 0

\* a run without ports
NoPorts == StartPorts([p \in Peers |-> NoProgram], 0, 0)

\* no dynamic storage under the name and no handle
NoStorage ==
    /\ shm_name = NoObject
    /\ shm = [o \in Objects |-> NoShm]
    /\ created = 0
    /\ storage = [p \in Peers |-> NoHandle]

\* a thread that has not called the shim: no fd is known, errno is ESUCCES
StartShim(t) ==
    /\ table = t
    /\ errno = "ESUCCES"
    /\ shim = NoCall

NoShim == StartShim([fd \in ShimFds |-> "None"])

\* the entry points in the order in which Init lists them
OpRank(o) ==
    CASE o = "open" -> 1
      [] o = "create" -> 2
      [] o = "open_or_create" -> 3

\* the same program in every process: one builder, any entry point each, any
\* answer of the namespace, with or without a segment of a prior incarnation;
\* the processes are interchangeable, so every choice of entry points is
\* listed once, in the order of the process numbers
Init ==
    \E e \in {"ok", "PermissionDenied", "Corrupted", "IncompatibleMessagingPattern"},
       d \in {NoDynamic, StaleDynamic},
       o \in [Procs -> {"open", "create", "open_or_create"}],
       b \in CapacityBuilders :
        /\ \A p, q \in Procs : p < q => OpRank(o[p]) <= OpRank(o[q])
        /\ e # "ok" => d = NoDynamic
        /\ Start(e, d, o, [p \in Procs |-> b])
        /\ NoWaitSets
        /\ NoPorts
        /\ NoStorage
        /\ NoShim

\* two callers with a builder each: process 1 creates the service, process 2
\* opens it (or creates it first); any further process makes no call
InitSettings ==
    \E o2 \in {"open", "open_or_create"},
       b1 \in BuilderStates, b2 \in BuilderStates :
        /\ Start("ok", NoDynamic,
                 [p \in Procs |-> IF p = 1 THEN "create" ELSE IF p = 2 THEN o2 ELSE "idle"],
                 [p \in Procs |-> IF p = 1 THEN b1 ELSE b2])
        /\ NoWaitSets
        /\ NoPorts
        /\ NoStorage
        /\ NoShim

Next ==
    \E p \in Procs :
        \/ open_or_create(p)
        \/ open(p)
        \/ open_loop(p)
        \/ open_wait(p)
        \/ open_dynamic(p)
        \/ create_impl(p)
        \/ create_static(p)
        \/ create_dynamic(p)
        \/ create_unlock(p)

Spec == Init /\ [][Next]_vars

SpecSettings == InitSettings /\ [][Next]_vars

\* a call of open that has begun goes on: its thread is scheduled, whatever
\* the other processes do
SpecOpen ==
    /\ Init
    /\ [][Next]_vars
    /\ \A p \in Procs :
        WF_vars(open(p) \/ open_loop(p) \/ open_wait(p) \/ open_dynamic(p))

\* one WaitSet of a process that holds every fd, with a reactor of any capacity
InitWaitSet ==
    \E c \in 1..MaxFd :
        /\ NoCalls
        /\ StartWaitSets({1}, Fds, c, TimerIndex, 1..MaxPeriod)
        /\ NoPorts
        /\ NoStorage
        /\ NoShim

\* every WaitSet of a process that holds one fd and asks for one timeout, with
\* one timer each
InitWaitSets ==
    /\ NoCalls
    /\ StartWaitSets(WaitSets, {1}, 1, {1}, {1})
    /\ NoPorts
    /\ NoStorage
    /\ NoShim

NextWaitSet ==
    \/ \E fd \in Fds : notify(fd)
    \/ sigterm
    \/ pass_time
    \/ \E w \in WaitSets :
        \/ \E fd \in Fds : notification(w, fd)
        \/ \E fd \in Fds, d \in 1..MaxPeriod : deadline(w, fd, d)
        \/ \E d \in 1..MaxPeriod : tick(w, d)
        \/ \E g \in GuardsOf(w) : drop(w, g)
        \/ run(w)
        \/ run_wait(w)
        \/ run_reset(w)
        \/ run_call(w)

SpecWaitSet == InitWaitSet /\ [][NextWaitSet]_vars

SpecWaitSets == InitWaitSets /\ [][NextWaitSet]_vars

\* one WaitSet of a process that holds one fd, with every timer and timeout
InitRepeatedRun ==
    /\ NoCalls
    /\ StartWaitSets({1}, {1}, 1, TimerIndex, 1..MaxPeriod)
    /\ NoPorts
    /\ NoStorage
    /\ NoShim

\* the thread that owns the WaitSet calls run again and again, and every run
\* call it makes goes on to its return
SpecRepeatedRun ==
    /\ InitRepeatedRun
    /\ [][NextWaitSet]_vars
    /\ \A w \in WaitSets :
        WF_vars(run(w) \/ run_wait(w) \/ run_reset(w) \/ run_call(w))

\* ------------------------------------------------- ports: specifications
\* a service of any capacity with ports of one kind: process 1 creates and
\* drops ports and may be killed, the other processes create, drop and
\* enumerate ports
InitRegistry ==
    \E k \in Kinds, c \in 1..MaxCapacity :
        /\ Created(max_listeners(max_notifiers(NewBuilder, c), c))
        /\ NoWaitSets
        /\ StartPorts([p \in Peers |->
                        [calls |-> IF p = 1 THEN {"create", "drop", "kill"}
                                   ELSE {"create", "drop", "list"},
                         kinds |-> {k}]], c, c)
        /\ NoStorage
        /\ NoShim

NextRegistry ==
    \E p \in Peers :
        \/ kill(p)
        \/ \E k \in Kinds : create_port(p, k)
        \/ claim(p)
        \/ publish(p)
        \/ \E k \in Kinds, i \in 1..MaxCapacity : drop_port(p, k, i)
        \/ release(p)
        \/ \E k \in Kinds : list_ports(p, k)
        \/ scan(p)
        \/ check(p)
        \/ reap(p)

SpecRegistry == InitRegistry /\ [][NextRegistry]_vars

\* a service of any capacity and any event_id_max_value: process 1 creates
\* listeners and drains them, the other processes create notifiers and notify
InitEvent ==
    \E c \in 1..MaxCapacity, m \in 0..MaxEventId :
        /\ Created(event_id_max_value(
                    max_listeners(max_notifiers(NewBuilder, c), c), m))
        /\ NoWaitSets
        /\ StartPorts([p \in Peers |->
                        IF p = 1
                        THEN [calls |-> {"create", "try_wait_one",
                                         "try_wait_all"},
                              kinds |-> {"listener"}]
                        ELSE [calls |-> {"create", "notify"},
                              kinds |-> {"notifier"}]], c, c)
        /\ NoStorage
        /\ NoShim

NextEvent ==
    \E p \in Peers :
        \/ \E k \in Kinds : create_port(p, k)
        \/ claim(p)
        \/ publish(p)
        \/ \E i \in 1..MaxCapacity, e \in EventIds : Notifier_notify(p, i, e)
        \/ scan(p)
        \/ check(p)
        \/ deliver(p)
        \/ \E i \in 1..MaxCapacity : try_wait_one(p, i)
        \/ \E i \in 1..MaxCapacity : try_wait_all(p, i)

SpecEvent == InitEvent /\ [][NextEvent]_vars

\* ------------------------------------------- dynamic storage: specification
\* processes that create, open and destroy the dynamic storage of a service
InitStorage ==
    /\ NoCalls
    /\ NoWaitSets
    /\ NoPorts
    /\ NoStorage
    /\ NoShim

NextStorage ==
    \E p \in Peers :
        \/ storage_create(p)
        \/ storage_open(p)
        \/ storage_verify(p)
        \/ storage_destroy(p)
        \/ storage_unlink(p)

SpecStorage == InitStorage /\ [][NextStorage]_vars

\* ------------------------------------------------ posix shim: specification
\* one thread that calls the shim with any fd, on a HandleTranslator that
\* knows no fd at first
InitShim ==
    /\ NoCalls
    /\ NoWaitSets
    /\ NoPorts
    /\ NoStorage
    /\ NoShim

NextShim ==
    \/ Errno_reset
    \/ \E fd \in ShimFds :
        \/ \E kind \in EntryKinds : HandleTranslator_add(fd, kind)
        \/ close(fd)
        \/ \E count \in 0..1 : read(fd, count)
        \/ \E count \in 0..1 : write(fd, count)
        \/ \E whence \in {"SEEK_SET", "SEEK_CUR", "SEEK_END", "other"} :
                lseek(fd, whence)
        \/ \E length \in {-1, 0, 1} : ftruncate(fd, length)
        \/ fsync(fd)

SpecShim == InitShim /\ [][NextShim]_vars

\* ------------------------------------------------------------------ claims
\* the calls whose create_impl returned Ok
Creators == {p \in Procs : create_result[p] = "Ok"}

\* the calls that hold the static artifact they created, still locked
Holders == {p \in Procs : pc[p] \in {"create_dynamic", "create_unlock"}}

\* every process calls open_or_create (with the builder they share), the
\* namespace is accessible, no storage operation fails for an outside reason
\* and no segment of a prior incarnation is left
RaceOfOpenOrCreate ==
    /\ env = "ok"
    /\ \A p \in Procs : ~faulted[p]
    /\ ~(dynamic.exists /\ dynamic.creator = 0)
    /\ \A p \in Procs : op[p] = "open_or_create"

C2_OneCreator ==
    /\ Cardinality(Holders) <= 1
    /\ Cardinality(Creators) <= 1
    /\ \A p \in Holders : static.state = "Locked" /\ static.creator = p
    /\ static.state = "Locked" => static.creator \in Holders

C2_Witness ==
    \E p, q \in Procs :
        /\ p # q
        /\ create_result[p] = "Ok"
        /\ op[q] = "create"
        /\ sample[q] = "None"
        /\ result[q] \in {"EventCreateError::AlreadyExists",
                          "EventCreateError::IsBeingCreatedByAnotherInstance"}

\* C3: whenever the static artifact is sealed the dynamic config exists, and it
\* is the one its creator allocated; a call that sampled the service as
\* available finds the dynamic config there.
C3_SealedHasDynamic ==
    /\ static.state = "Sealed" =>
            /\ dynamic.exists
            /\ dynamic.creator = static.creator
    /\ \A p \in Procs : pc[p] = "open_dynamic" => dynamic.exists

C3_Witness ==
    /\ static.state = "Sealed"
    /\ \E p \in Procs : p \notin Creators /\ sample[p] = "Some" /\ result[p] = "Ok"

\* C4 as stated: open returns the error kind that matches the sampled state:
\* IncompatibleMessagingPattern, PermissionDenied, EventInCorruptedState.
C4_OpenErrorMatchesState ==
    \A p \in Procs :
        (op[p] = "open" /\ pc[p] = "done") =>
            /\ sample[p] = "IncompatibleMessagingPattern" =>
                    result[p] = "EventOpenError::IncompatibleMessagingPattern"
            /\ sample[p] = "PermissionDenied" =>
                    result[p] = "EventOpenError::PermissionDenied"
            /\ sample[p] = "Corrupted" =>
                    result[p] = "EventOpenError::EventInCorruptedState"

\* C5: the step of open that samples an absent service ends the call with
\* DoesNotExist, without a wait and without touching either artifact.
C5_AbsentStep ==
    \A p \in Procs :
        (pc[p] = "open_loop" /\ pc'[p] # pc[p] /\ is_service_available = "None") =>
            /\ pc'[p] = "done"
            /\ result'[p] = "EventOpenError::DoesNotExist"
            /\ waited' = waited
            /\ static' = static
            /\ dynamic' = dynamic

C5_AbsentFailsAtOnce == [][C5_AbsentStep]_vars

C5_Witness ==
    \E p \in Procs :
        /\ result[p] = "EventOpenError::DoesNotExist"
        /\ waited[p] = 0
        /\ static = AbsentStatic
        /\ ~dynamic.exists

\* C6 as stated: open fails with HangsInCreation only while the state is still
\* BeingCreated; once the creator has sealed the artifact open returns the
\* factory.
C6_FailsOnlyWhileBeingCreated ==
    [][\A p \in Procs :
        (result[p] = "none" /\ result'[p] = "EventOpenError::HangsInCreation") =>
            is_service_available = "IsBeingCreatedByAnotherInstance"]_vars

\* a call returned HangsInCreation only if its last sample was BeingCreated and
\* its waited time exceeds the creation timeout
C6_HangsOnlyAfterTimeout ==
    \A p \in Procs :
        result[p] = "EventOpenError::HangsInCreation" =>
            /\ sample[p] = "IsBeingCreatedByAnotherInstance"
            /\ waited[p] > creation_timeout

\* a wait that does not fail adds to the waited time; the call then fails with
\* HangsInCreation if that time exceeds the timeout and re-samples otherwise
C6_WaitStep ==
    \A p \in Procs :
        (pc[p] = "open_wait" /\ pc'[p] # pc[p] /\ faulted'[p] = faulted[p]) =>
            /\ waited'[p] > waited[p]
            /\ IF waited'[p] > creation_timeout
               THEN pc'[p] = "done" /\ result'[p] = "EventOpenError::HangsInCreation"
               ELSE pc'[p] = "open_loop" /\ result'[p] = "none"

\* a sample of BeingCreated, and no other, is followed by a wait; a sample of
\* the sealed artifact ends the waiting
C6_SampleStep ==
    \A p \in Procs :
        (pc[p] = "open_loop" /\ pc'[p] # pc[p]) =>
            /\ pc'[p] = "open_wait" <=>
                    is_service_available = "IsBeingCreatedByAnotherInstance"
            /\ is_service_available = "Some" =>
                    /\ waited'[p] = waited[p]
                    /\ result'[p] # "EventOpenError::HangsInCreation"

\* C6 amended: while open samples BeingCreated it waits and re-samples; it
\* fails with HangsInCreation only when its last sample, taken before the wait,
\* was BeingCreated and the waited time after that wait exceeds the creation
\* timeout; a sample that observes the sealed artifact ends the waiting.
C6_WaitsAndResamples ==
    /\ []C6_HangsOnlyAfterTimeout
    /\ [][C6_WaitStep /\ C6_SampleStep]_vars

C6_Witness ==
    \E p \in Procs :
        /\ result[p] = "EventOpenError::HangsInCreation"
        /\ waited[p] > creation_timeout
        /\ static.state = "Sealed"
        /\ static.creator # p

\* the calls whose open sampled the sealed service and verified its settings
Verified(p) == factory[p] # NoConfig /\ create_result[p] # "Ok"

\* C7: open fails verification with the error of the first requested minimum,
\* in the order notifiers, listeners, event id, that is greater than the
\* existing setting; it passes when there is none, and a value the caller did
\* not request never fails it.
C7_VerifiesRequestedMinimums ==
    \A p \in Procs :
        Verified(p) =>
            LET r == requested[p]
                e == factory[p]
                notifiers == r.verify_max_notifiers
                                /\ r.max_notifiers > e.max_notifiers
                listeners == r.verify_max_listeners
                                /\ r.max_listeners > e.max_listeners
                eventId == r.verify_event_id_max_value
                                /\ r.event_id_max_value > e.event_id_max_value
            IN  /\ result[p] = "EventOpenError::DoesNotSupportRequestedAmountOfNotifiers"
                        <=> notifiers
                /\ result[p] = "EventOpenError::DoesNotSupportRequestedAmountOfListeners"
                        <=> (~notifiers /\ listeners)
                /\ result[p] = "EventOpenError::DoesNotSupportRequestedMaxEventId"
                        <=> (~notifiers /\ ~listeners /\ eventId)
                /\ (~notifiers /\ ~listeners /\ ~eventId) =>
                        \/ pc[p] = "open_dynamic"
                        \/ result[p] \in
                            {"Ok", "EventOpenError::UnableToOpenDynamicServiceInformation"}

C7_Witness ==
    \E p \in Procs :
        /\ Verified(p)
        /\ result[p] = "EventOpenError::DoesNotSupportRequestedMaxEventId"
        /\ ~requested[p].verify_max_notifiers
        /\ requested[p].max_notifiers > factory[p].max_notifiers

\* C8: a create that finds the name taken, at its sample of the state or at
\* the exclusive creation, fails with AlreadyExists if the artifact is sealed
\* and with IsBeingCreatedByAnotherInstance if it is locked, and leaves both
\* artifacts as they are.
C8_ConflictStep ==
    \A p \in Procs :
        (/\ pc[p] \in {"create_impl", "create_static"}
         /\ pc'[p] # pc[p]
         /\ faulted'[p] = faulted[p]
         /\ \/ env = "ok" /\ static.state # "Absent"
            \/ env = "IncompatibleMessagingPattern") =>
            /\ create_result'[p] =
                    IF env = "ok" /\ static.state = "Locked"
                    THEN "EventCreateError::IsBeingCreatedByAnotherInstance"
                    ELSE "EventCreateError::AlreadyExists"
            /\ op[p] = "create" =>
                    pc'[p] = "done" /\ result'[p] = create_result'[p]
            /\ static' = static
            /\ dynamic' = dynamic

C8_ConflictingCreateFails == [][C8_ConflictStep]_vars

C8_Witness ==
    \E p \in Procs :
        /\ op[p] = "create"
        /\ sample[p] = "None"
        /\ result[p] = "EventCreateError::AlreadyExists"
        /\ static.state = "Sealed"

\* C9: a create that has created the static artifact and finds a dynamic
\* config already there fails with OldConnectionsStillActive; the call ends
\* without sealing the artifact and without touching that dynamic config.
C9_OldConnectionsStep ==
    \A p \in Procs :
        (/\ pc[p] = "create_dynamic"
         /\ pc'[p] # pc[p]
         /\ faulted'[p] = faulted[p]
         /\ dynamic.exists) =>
            /\ pc'[p] = "done"
            /\ result'[p] = "EventCreateError::OldConnectionsStillActive"
            /\ static'.state # "Sealed"
            /\ dynamic' = dynamic

C9_NeverSealed ==
    \A p \in Procs :
        result[p] = "EventCreateError::OldConnectionsStillActive" =>
            /\ create_result[p] = result[p]
            /\ ~(static.state = "Sealed" /\ static.creator = p)

C9_OldConnectionsStillActive ==
    /\ []C9_NeverSealed
    /\ [][C9_OldConnectionsStep]_vars

C9_Witness ==
    \E p \in Procs :
        /\ result[p] = "EventCreateError::OldConnectionsStillActive"
        /\ static.state = "Absent"
        /\ dynamic.exists

\* C10: a sealed static config holds max_notifiers >= 1 and max_listeners >= 1,
\* namely 1 where its creator requested 0 and the requested value otherwise;
\* the dynamic config is sized by the same values, and the replacement is done
\* before the static artifact is created.
C10_CapacitiesAtLeastOne ==
    /\ static.state = "Sealed" =>
            LET r == requested[static.creator]
                c == static.config
            IN  /\ c.max_notifiers >= 1 /\ c.max_listeners >= 1
                /\ r.max_notifiers = 0 => c.max_notifiers = 1
                /\ r.max_notifiers # 0 => c.max_notifiers = r.max_notifiers
                /\ r.max_listeners = 0 => c.max_listeners = 1
                /\ r.max_listeners # 0 => c.max_listeners = r.max_listeners
                /\ dynamic.number_of_notifiers = c.max_notifiers
                /\ dynamic.number_of_listeners = c.max_listeners
    /\ static.state = "Locked" =>
            /\ settings[static.creator].max_notifiers >= 1
            /\ settings[static.creator].max_listeners >= 1
    /\ (dynamic.exists /\ dynamic.creator # 0) =>
            /\ dynamic.number_of_notifiers >= 1
            /\ dynamic.number_of_listeners >= 1

C10_Witness ==
    /\ static.state = "Sealed"
    /\ requested[static.creator].max_notifiers = 0
    /\ requested[static.creator].max_listeners = 0
    /\ op[static.creator] = "open_or_create"
    /\ static.config.max_notifiers = 1
    /\ static.config.max_listeners = 1

\* the positions of a call inside open
InOpen == {"open", "open_loop", "open_wait", "open_dynamic"}

\* the first sample of open_or_create: Available or BeingCreated goes to open,
\* Absent goes to create, every other state ends the call with its open error
C11_DispatchStep ==
    \A p \in Procs :
        (pc[p] = "open_or_create" /\ pc'[p] # pc[p]) =>
            LET s == is_service_available IN
            /\ create_result'[p] = "none"
            /\ static' = static /\ dynamic' = dynamic
            /\ s \in {"Some", "IsBeingCreatedByAnotherInstance"} =>
                    pc'[p] = "open" /\ result'[p] = "none"
            /\ s = "None" => pc'[p] = "create_impl" /\ result'[p] = "none"
            /\ s = "Corrupted" =>
                    pc'[p] = "done"
                    /\ result'[p] = "EventOpenError::EventInCorruptedState"
            /\ s = "IncompatibleMessagingPattern" =>
                    pc'[p] = "done"
                    /\ result'[p] = "EventOpenError::IncompatibleMessagingPattern"
            /\ s = "PermissionDenied" =>
                    pc'[p] = "done"
                    /\ result'[p] = "EventOpenError::PermissionDenied"

\* the return of create_impl inside open_or_create: the two errors of a lost
\* race go on to open, every other error is returned as it is
C11_CreateReturnStep ==
    \A p \in Procs :
        (op[p] = "open_or_create" /\ create_result'[p] # create_result[p]) =>
            LET e == create_result'[p] IN
            IF e \in {"EventCreateError::AlreadyExists",
                      "EventCreateError::IsBeingCreatedByAnotherInstance"}
            THEN pc'[p] = "open" /\ result'[p] = "none"
            ELSE pc'[p] = "done" /\ result'[p] = e

\* a call that is in open never attempts a creation
C11_OpenStep ==
    \A p \in Procs :
        (pc[p] \in InOpen /\ pc'[p] # pc[p]) =>
            /\ pc'[p] \in InOpen \cup {"done"}
            /\ static' = static
            /\ create_result' = create_result

\* C11: open_or_create dispatches on its first sample: Available or
\* BeingCreated goes to open without a creation attempt, Absent goes to
\* create; a create that fails with AlreadyExists or
\* IsBeingCreatedByAnotherInstance falls back to open and any other create
\* error is returned as is; Corrupted, IncompatibleMessagingPattern and
\* PermissionDenied return the matching open error without a creation attempt.
C11_DispatchOnFirstSample ==
    [][C11_DispatchStep /\ C11_CreateReturnStep /\ C11_OpenStep]_vars

C11_Witness ==
    \E p \in Procs :
        /\ op[p] = "open_or_create"
        /\ create_result[p] = "EventCreateError::IsBeingCreatedByAnotherInstance"
        /\ result[p] = "Ok"

\* the live deadline Guards of a WaitSet
DeadlineGuards(w) == {g \in guards[w] : g.type = "Deadline"}

\* the calls of fn_call in the last run of w that are about the attachment of
\* the Guard g: they carry its fd or its timer index
CallsAbout(w, g) ==
    {i \in DOMAIN calls[w] :
        \/ g.fd # NoFd /\ calls[w][i].fd = g.fd
        \/ g.timer # NoTimer /\ calls[w][i].timer = g.timer}

\* C12: for a deadline attachment whose fd is ready before its deadline timer
\* has elapsed, run resets the timer of the attachment and calls the callback
\* with the notification id of that attachment.
C12_ReadyBeforeDeadline ==
    \A w \in world.waitsets : \A g \in DeadlineGuards(w) :
        \A i \in DOMAIN calls[w] :
            (i <= Len(fds[w]) /\ fds[w][i] = g.fd /\ g.timer \notin missed[w]) =>
                /\ fd_and_timer_idx[w][i] = <<g.fd, g.timer>>
                /\ calls[w][i] = AttachmentId_notification(w, g.fd)

\* C13: for a deadline attachment whose deadline has elapsed while its fd is
\* not ready, run calls the callback once with an id of kind deadline that
\* originates from the Guard of the attachment.
C13_DeadlineElapsed ==
    \A w \in world.waitsets : \A g \in DeadlineGuards(w) :
        (run_result[w] = "Ok(WaitEvent::Tick)" /\ g.timer \in missed[w]) =>
            Cardinality({i \in DOMAIN calls[w] :
                            /\ calls[w][i].kind = "Deadline"
                            /\ originates_from(calls[w][i], g)}) = 1

\* while run resets the deadlines no callback has been called, and once it
\* calls the callbacks the deadline of every collected fd has been reset
C14_ResetsDone ==
    \A w \in world.waitsets :
        /\ wpc[w] = "reset" => calls[w] = <<>>
        /\ (wpc[w] = "call" /\ contains_deadlines(w)) =>
                /\ Len(fd_and_timer_idx[w]) = Len(fds[w])
                /\ \A i \in DOMAIN fds[w] :
                        fd_and_timer_idx[w][i] =
                            <<fds[w][i], reset_deadline(w, fds[w][i])>>

\* the fds are collected in one step, a reset calls no callback, and a call of
\* the callback touches no timer and collects no fd
C14_Step ==
    \A w \in world.waitsets :
        /\ fds'[w] # fds[w] =>
                wpc[w] \in {"idle", "wait"} /\ calls'[w] = <<>>
        /\ fd_and_timer_idx'[w] # fd_and_timer_idx[w] => calls'[w] = <<>>
        /\ (calls'[w] # calls[w] /\ fds[w] # <<>>) =>
                \/ calls'[w] = <<>>
                \/ /\ wpc[w] = "call"
                   /\ timer' = timer
                   /\ fds' = fds
                   /\ fd_and_timer_idx' = fd_and_timer_idx

\* C14: within one run the ready fds are collected first, then the deadline
\* timer of every ready fd is reset, and only then the callbacks are called;
\* a callback changes no timer, so the time spent in it neither shortens nor
\* extends the deadline of another attachment that was ready in the cycle.
C14_CollectResetCall ==
    /\ []C14_ResetsDone
    /\ [][C14_Step]_vars

C14_Witness ==
    \E w \in world.waitsets :
        /\ wpc[w] = "call"
        /\ Len(fds[w]) = 2
        /\ Len(fd_and_timer_idx[w]) = 2
        /\ Len(calls[w]) = 1
        /\ \A i \in 1..2 :
                /\ fd_and_timer_idx[w][i][2] # NoTimer
                /\ timer[w][fd_and_timer_idx[w][i][2]].elapsed > 0

\* C15: when the fd of a deadline attachment is ready and its deadline has
\* elapsed in the same cycle, the callback is called exactly once for the
\* attachment, with its notification id, and the deadline timer has been reset.
C15_ReadyAndElapsed ==
    \A w \in world.waitsets : \A g \in DeadlineGuards(w) :
        (/\ run_result[w] = "Ok(WaitEvent::Notification)"
         /\ g.timer \in missed[w]
         /\ \E i \in DOMAIN fds[w] : fds[w][i] = g.fd) =>
            /\ Cardinality(CallsAbout(w, g)) = 1
            /\ \A i \in CallsAbout(w, g) :
                    /\ calls[w][i] = AttachmentId_notification(w, g.fd)
                    /\ fd_and_timer_idx[w][i] = <<g.fd, g.timer>>

\* C16: a deadline callback is delivered for an attachment only when its
\* deadline D has elapsed since the timer was armed or last reset by a
\* notification, and a run that finds the deadline elapsed and no
\* notification for the attachment delivers exactly one deadline callback.
C16_OneDeadlinePerInterval ==
    \A w \in world.waitsets :
        /\ \A i \in DOMAIN calls[w] :
                calls[w][i].kind = "Deadline" => calls[w][i].timer \in missed[w]
        /\ \A g \in DeadlineGuards(w) :
                (/\ run_result[w] \in {"Ok(WaitEvent::Tick)",
                                       "Ok(WaitEvent::Notification)"}
                 /\ g.timer \in missed[w]
                 /\ \A i \in DOMAIN fds[w] : fds[w][i] # g.fd) =>
                    Cardinality({i \in DOMAIN calls[w] :
                                    calls[w][i] = to_attachment_id(g)}) = 1

\* a run that returned TerminationRequest was entered after the termination
\* request and called no callback
C17_Returned ==
    \A w \in world.waitsets :
        run_result[w] = "Ok(WaitEvent::TerminationRequest)" =>
            /\ termination_requested
            /\ wpc[w] = "idle"
            /\ calls[w] = <<>> /\ fds[w] = <<>> /\ missed[w] = {}

\* after the termination request no WaitSet enters the reactor and no
\* callback is called; the run that returns TerminationRequest leaves timers,
\* reactor and pending events as they are
C17_Step ==
    \A w \in world.waitsets :
        (termination_requested /\ wpc[w] = "idle") =>
            /\ wpc'[w] = "idle"
            /\ calls'[w] \in {calls[w], <<>>}
            /\ fds'[w] \in {fds[w], <<>>}
            /\ run_result'[w] \in {run_result[w], "none",
                                   "Ok(WaitEvent::TerminationRequest)"}
            /\ (run_result'[w] = "Ok(WaitEvent::TerminationRequest)"
                /\ run_result[w] # run_result'[w]) =>
                    timer' = timer /\ reactor' = reactor /\ ready' = ready

\* C17: a run that starts after the process-wide signal handler has reported
\* termination returns Ok(TerminationRequest) without waiting on the reactor,
\* without calling the callback and without resetting or draining a timer,
\* and so does every later run of every WaitSet of the process.
C17_TerminationAtEntry ==
    /\ []C17_Returned
    /\ [][C17_Step]_vars

C17_Witness ==
    /\ \A w \in world.waitsets : run_result[w] = "Ok(WaitEvent::TerminationRequest)"
    /\ \E w \in world.waitsets : Fired(w) # {} /\ reactor[w] \cap ready # {}

\* C18: a run that waits in the reactor when SIGTERM is raised returns
\* Ok(TerminationRequest).
C18_TerminationWhileWaiting ==
    [][\A w \in world.waitsets :
        (termination_requested /\ wpc[w] = "wait" /\ wpc'[w] # "wait") =>
            /\ wpc'[w] = "idle"
            /\ run_result'[w] = "Ok(WaitEvent::TerminationRequest)"]_vars

\* a run that returned Tick called the callback once per fired timer, with the
\* tick id of the timer, and for no fd
C19_Tick(w) ==
    run_result[w] = "Ok(WaitEvent::Tick)" =>
        /\ fds[w] = <<>>
        /\ Len(calls[w]) = Cardinality(missed[w])
        /\ \A t \in missed[w] :
                \E i \in DOMAIN calls[w] : calls[w][i] = AttachmentId_tick(w, t)

\* a run returned Notification after it called the callback once per ready fd
C19_Notification(w) ==
    /\ run_result[w] = "Ok(WaitEvent::Notification)"
    /\ Len(calls[w]) = Len(fds[w])
    /\ \A i \in DOMAIN fds[w] :
            calls[w][i].fd = fds[w][i] /\ calls[w][i].kind # "Tick"
    /\ \A i, j \in DOMAIN fds[w] : fds[w][i] = fds[w][j] => i = j

C20_AttachErrors ==
    \A w \in world.waitsets :
        LET a == attach_result[w] IN
        a.call \in {"notification", "deadline"} =>
            /\ a.attached =>
                    a.result \in {"WaitSetAttachmentError::AlreadyAttached",
                                  "WaitSetAttachmentError::InternalError"}
            /\ (~a.attached /\ a.len >= world.capacity) =>
                    a.result \in {"WaitSetAttachmentError::InsufficientCapacity",
                                  "WaitSetAttachmentError::InternalError"}
            /\ a.result # "Ok" => len(w) = a.len

\* C21: run maps the failures of the reactor wait and calls no callback:
\* Interrupt returns Ok(WaitEvent::Interrupt), InsufficientPermissions returns
\* Err(WaitSetWaitError::InsufficientPermissions), UnknownError returns
\* Err(WaitSetWaitError::InternalError).
C21_ReactorErrors ==
    \A w \in world.waitsets :
        /\ timed_wait[w] = "Interrupt" =>
                run_result[w] = "Ok(WaitEvent::Interrupt)"
        /\ timed_wait[w] = "InsufficientPermissions" =>
                run_result[w] = "Err(WaitSetWaitError::InsufficientPermissions)"
        /\ timed_wait[w] = "UnknownError" =>
                run_result[w] = "Err(WaitSetWaitError::InternalError)"
        /\ timed_wait[w] \in {"Interrupt", "InsufficientPermissions",
                              "UnknownError"} =>
                /\ wpc[w] = "idle"
                /\ calls[w] = <<>> /\ fds[w] = <<>>

C21_Witness ==
    \E w \in world.waitsets :
        /\ timed_wait[w] = "Interrupt"
        /\ run_result[w] = "Ok(WaitEvent::Interrupt)"
        /\ reactor[w] \cap ready # {}
        /\ Fired(w) # {}

\* C22: an attachment id delivered by run originates from a live Guard iff it
\* is the Guard's own id: same kind, same WaitSet, same fd and timer index; an
\* id of one WaitSet matches no Guard of another WaitSet, and at most one live
\* Guard of a WaitSet matches an id.
C22_OriginatesFromOwnGuard ==
    \A w \in world.waitsets : \A i \in DOMAIN calls[w] :
        LET a == calls[w][i] IN
        /\ \A v \in world.waitsets : \A g \in guards[v] :
                /\ originates_from(a, g) <=>
                        /\ a.kind = g.type
                        /\ a.waitset = g.waitset
                        /\ a.fd = g.fd
                        /\ a.timer = g.timer
                /\ v # w => ~originates_from(a, g)
        /\ Cardinality({g \in guards[w] : originates_from(a, g)}) <= 1

C22_Witness ==
    \E w \in world.waitsets, v \in world.waitsets :
        /\ w # v
        /\ \E i \in DOMAIN calls[w] :
                /\ \E g \in guards[w] : originates_from(calls[w][i], g)
                /\ \E g \in guards[v] :
                        /\ g.type = calls[w][i].kind
                        /\ g.fd = calls[w][i].fd
                        /\ g.timer = calls[w][i].timer

\* the drop of the Guard g of w: the fd of g is detached from the reactor and
\* counts no longer, the deadline of g is forgotten, its timer is removed, and
\* nothing stands in the way of attaching the fd again
C23_Dropped(w, g) ==
    /\ guards'[w] = guards[w] \ {g}
    /\ g.fd # NoFd =>
            /\ g.fd \notin reactor'[w]
            /\ Cardinality(reactor'[w]) = len(w) - 1
            /\ Cardinality(reactor'[w]) < world.capacity
    /\ g.fd = NoFd => reactor'[w] = reactor[w]
    /\ \A e \in deadline_to_timer'[w] :
            e[1] # g.fd /\ (g.type = "Deadline" => e[2] # g.timer)
    /\ g.timer # NoTimer => ~timer'[w][g.timer].armed
    /\ calls'[w] = <<>>

C23_Step ==
    \A w \in world.waitsets :
        /\ \A g \in guards[w] : g \notin guards'[w] => C23_Dropped(w, g)
        /\ (/\ attach_result'[w] # attach_result[w]
            /\ attach_result'[w].call \in {"notification", "deadline"}
            /\ ~attach_result'[w].attached
            /\ attach_result'[w].len < world.capacity) =>
                attach_result'[w].result
                    # "WaitSetAttachmentError::AlreadyAttached"

\* what run hands to the callback refers to an attachment of the WaitSet: the
\* fd is attached, and the timer of a tick or deadline id is armed
C23_CallsOfAttached ==
    \A w \in world.waitsets : \A i \in DOMAIN calls[w] :
        /\ calls[w][i].fd # NoFd => calls[w][i].fd \in reactor[w]
        /\ calls[w][i].timer # NoTimer => timer[w][calls[w][i].timer].armed

\* C23: dropping a Guard detaches its attachment: len() counts it no longer,
\* no later run calls the callback with its id, the deadline bookkeeping and
\* the timer of a deadline Guard are removed, and the same object can be
\* attached again without AlreadyAttached.
C23_DropDetaches ==
    /\ []C23_CallsOfAttached
    /\ [][C23_Step]_vars

C23_Witness ==
    \E w \in world.waitsets :
        /\ attach_result[w].call = "drop"
        /\ attach_result[w].attached
        /\ len(w) = attach_result[w].len - 1
        /\ deadline_to_timer[w] = {}
        /\ \A t \in TimerIndex : ~timer[w][t].armed
        /\ ready # {}

\* ---------------------------------------------------------- claims: ports
\* the ports of kind k that processes hold, each with its holder
HeldPorts(k) ==
    {h \in UNION {{<<p, port>> : port \in ports[p]} : p \in Peers} :
        h[2].kind = k}

\* a creation of a port of kind k has failed while no slot of the registry
\* has ever been freed only if every slot is taken
FailsOnlyWhenTaken(k) ==
    \A p \in Peers :
        (/\ presult[p].call = "create" /\ presult[p].kind = k
         /\ presult[p].result # "Ok"
         /\ \A i \in DOMAIN registry[k] : registry[k][i].generation = 0) =>
            \A i \in DOMAIN registry[k] : registry[k][i].state # "free"

C25_Returned ==
    \A p \in Peers :
        presult[p].call = "notify" =>
            presult[p].result =
                IF presult[p].e <= static.config.event_id_max_value
                THEN "Ok"
                ELSE "NotifierNotifyError::EventIdOutOfBounds"

\* the notify call that returns EventIdOutOfBounds changes no ring, no
\* semaphore and no registry
C25_Step ==
    \A p \in Peers :
        (/\ presult'[p] # presult[p]
         /\ presult'[p].result = "NotifierNotifyError::EventIdOutOfBounds") =>
            /\ ring' = ring
            /\ semaphore' = semaphore
            /\ registry' = registry

DrainStep(p, c, i) ==
    /\ ppc[p] = "idle" /\ ppc'[p] = "idle"
    /\ presult'[p].call = c
    /\ presult'[p].port \in ports[p]
    /\ presult'[p].port.slot = i
    /\ \A q \in Peers \ {p} :
            ppc'[q] = ppc[q] /\ local'[q] = local[q] /\ presult'[q] = presult[q]
    /\ \/ presult'[p] # presult[p]
       \/ ring'[i] # ring[i]
       \/ semaphore'[i] # semaphore[i]

\* the ids of a sequence of EventIds
Range(y) == {y[j] : j \in DOMAIN y}

\* try_wait_all yields every pending id once and leaves the ring empty;
\* try_wait_one yields one pending id and clears it, or None on an empty ring
C26_Step ==
    \A p \in Peers : \A i \in DOMAIN ring :
        /\ DrainStep(p, "try_wait_all", i) =>
                /\ Range(presult'[p].yielded) = ring[i]
                /\ Len(presult'[p].yielded) = Cardinality(ring[i])
                /\ ring'[i] = {}
        /\ DrainStep(p, "try_wait_one", i) =>
                IF ring[i] = {}
                THEN /\ presult'[p].result = "None"
                     /\ presult'[p].yielded = <<>>
                     /\ ring'[i] = {}
                ELSE /\ presult'[p].result = "Some"
                     /\ Len(presult'[p].yielded) = 1
                     /\ presult'[p].yielded[1] \in ring[i]
                     /\ ring'[i] = ring[i] \ {presult'[p].yielded[1]}

\* C26: after k >= 1 calls notify(e) with the same id and no drain in
\* between, one try_wait_all of the listener yields e exactly once, and a
\* following try_wait_one returns None.
C26_Coalescing == [][C26_Step]_vars

C26_Witness ==
    /\ static.config.event_id_max_value = 0
    /\ \E p \in Peers :
        /\ presult[p].call = "try_wait_all"
        /\ presult[p].yielded = <<0>>
        /\ presult[p].port \in ports[p]
        /\ ring[presult[p].port.slot] = {}
        /\ semaphore[presult[p].port.slot] >= 1

\* C27: no notification is lost when notify and drain interleave: once
\* notify(e) has returned, every listener that was registered before its
\* scan (and still is) has been reached, and an id delivered to a listener is
\* pending in its ring until a drain yields it; a drain clears no bit whose
\* id it does not yield.
C27_NoLostNotification ==
    /\ \A i \in DOMAIN ring : owed[i] = ring[i]
    /\ \A p \in Peers :
        (presult[p].call = "notify" /\ presult[p].result = "Ok") =>
            \A to \in presult[p].registered :
                (/\ registry["listener"][to.slot].state = "live"
                 /\ registry["listener"][to.slot].generation = to.generation) =>
                    to \in presult[p].reached

C27_Witness ==
    \E p \in Peers, q \in Peers :
        /\ presult[p].call = "notify" /\ presult[p].result = "Ok"
        /\ Cardinality(presult[p].reached) = 2
        /\ \E to \in presult[p].reached : presult[p].e \in ring[to.slot]
        /\ \E to \in presult[p].reached :
                /\ presult[p].e \notin ring[to.slot]
                /\ presult[q].call \in {"try_wait_one", "try_wait_all"}
                /\ presult[q].port = to
                /\ presult[p].e \in Range(presult[q].yielded)

\* the cleanup hook has run at most once for the port of a slot, and no two
\* processes clean up the same slot at the same time
C28_OneCleanup ==
    /\ \A k \in Kinds : \A i \in DOMAIN registry[k] : hooks[k][i] <= 1
    /\ \A p, q \in Peers :
        (/\ p # q
         /\ ppc[p] \in {"reap", "release"} /\ ppc[q] \in {"reap", "release"}
         /\ local[p].kind = local[q].kind) =>
            local[p].i # local[q].i

\* a slot leaves live only through the drop of its port by the owner or
\* through a reaper after the owner has been killed; a scan that finds a live
\* slot whose owner is gone leaves it reaped or being reaped; the reaper runs
\* the cleanup hook once and frees the slot
C28_Step ==
    /\ \A k \in Kinds : \A i \in DOMAIN registry[k] :
        /\ (registry[k][i].state = "live" /\ registry'[k][i].state # "live") =>
                /\ registry'[k][i].state = "releasing"
                /\ \/ ~alive[registry[k][i].owner]
                   \/ /\ Port(k, i, registry[k][i])
                            \in ports[registry[k][i].owner]
                      /\ Port(k, i, registry[k][i])
                            \notin ports'[registry[k][i].owner]
        /\ (registry[k][i].state = "releasing"
            /\ registry'[k][i].state # "releasing") =>
                /\ registry'[k][i] = FreeSlot(registry[k][i].generation + 1)
                /\ hooks'[k][i] = 1
    /\ \A p \in Peers :
        (/\ ppc[p] = "check" /\ ppc'[p] \notin {"check", "dead"}
         /\ ~alive[local[p].seen.owner]) =>
            LET slot == registry'[local[p].kind][local[p].i] IN
            \/ slot.generation # local[p].seen.generation
            \/ slot.state = "releasing"

C29_OneOwner ==
    \A k \in Kinds :
        /\ \A h \in HeldPorts(k) :
                /\ h[2].slot \in DOMAIN registry[k]
                /\ registry[k][h[2].slot] =
                        [state |-> "live", generation |-> h[2].generation,
                         owner |-> h[1], id |-> h[2].id]
        /\ \A a, b \in HeldPorts(k) : a # b => a[2].slot # b[2].slot

\* the state of a slot changes along free, claiming, live, releasing, free;
\* an enumeration accepts a slot that it has seen live, in the generation in
\* which it has seen it, and no slot twice
C29_Step ==
    /\ \A k \in Kinds : \A i \in DOMAIN registry[k] :
        registry'[k][i].state # registry[k][i].state =>
            <<registry[k][i].state, registry'[k][i].state>> \in
                {<<"free", "claiming">>, <<"claiming", "live">>,
                 <<"live", "releasing">>, <<"releasing", "free">>}
    /\ \A p \in Peers :
        LET before == local[p].snapshot
            after == IF ppc'[p] = "idle" THEN presult'[p].snapshot
                     ELSE local'[p].snapshot
        IN  (ppc[p] \in {"scan", "check", "reap"} /\ after # before) =>
                /\ ppc[p] = "check"
                /\ local[p].seen.state = "live"
                /\ Len(after) = Len(before) + 1
                /\ \A j \in DOMAIN before : after[j] = before[j]
                /\ after[Len(after)] =
                        Port(local[p].kind, local[p].i, local[p].seen)
                /\ registry[local[p].kind][local[p].i].generation =
                        local[p].seen.generation
                /\ registry[local[p].kind][local[p].i].id = local[p].seen.id
                /\ \A j \in DOMAIN before : before[j].slot # local[p].i

MaxSupported(k) ==
    IF k = "listener" THEN static.config.max_listeners
    ELSE static.config.max_notifiers

\* the ports that exist do not exceed the capacity of the service
C30_WithinCapacity ==
    \A k \in Kinds :
        /\ Cardinality(HeldPorts(k)) <= MaxSupported(k)
        /\ Cardinality(Live(k)) <= MaxSupported(k)
        /\ FailsOnlyWhenTaken(k)

\* a creation passes a slot only if the slot is taken, it fails only with
\* the error of its port kind and leaves the registry as it is, and the drop
\* of a port ends with its slot free
C30_Step ==
    \A p \in Peers :
        /\ (ppc'[p] = "claim" /\ local'[p] # local[p]) =>
                registry[local'[p].kind][local'[p].i - 1].state # "free"
        /\ (/\ presult'[p] # presult[p]
            /\ presult'[p].call = "create"
            /\ presult'[p].result # "Ok") =>
                /\ presult'[p].result =
                        IF presult'[p].kind = "listener"
                        THEN "ListenerCreateError::ExceedsMaxSupportedListeners"
                        ELSE "NotifierCreateError::ExceedsMaxSupportedNotifiers"
                /\ registry' = registry
                /\ ports' = ports
        /\ (ppc[p] = "release" /\ ppc'[p] = "idle") =>
                registry'[local[p].kind][local[p].i].state = "free"

C32_IterationStep ==
    \A p \in Procs :
        /\ (pc[p] = "open_loop" /\ pc'[p] # "open_loop") =>
                pc'[p] \in {"done", "open_dynamic", "open_wait"}
        /\ (pc[p] = "open_dynamic" /\ pc'[p] # "open_dynamic") =>
                pc'[p] = "done"
        /\ (pc[p] = "open_wait" /\ pc'[p] # "open_wait") =>
                IF waited'[p] > creation_timeout
                THEN /\ pc'[p] = "done"
                     /\ result'[p] = "EventOpenError::HangsInCreation"
                ELSE \/ pc'[p] = "open_loop" /\ waited'[p] > waited[p]
                     \/ /\ pc'[p] = "done"
                        /\ result'[p] = "EventOpenError::InternalFailure"

\* C32: every call to open terminates: each iteration of its loop returns
\* or performs one adaptive wait, and once the accumulated wait exceeds the
\* creation timeout the call returns HangsInCreation, also when the creator
\* never seals the artifact.
C32_OpenTerminates ==
    /\ [][C32_IterationStep]_vars
    /\ \A p \in Procs : (pc[p] \in InOpen) ~> (pc[p] = "done")

C32_Witness ==
    \E p \in Procs :
        /\ result[p] = "EventOpenError::HangsInCreation"
        /\ waited[p] > creation_timeout
        /\ static.state = "Locked"
        /\ \E q \in Procs : pc[q] \in {"create_dynamic", "create_unlock"}

\* C33: a factory returned by open (directly or through open_or_create)
\* carries the settings of the existing sealed StaticConfig and not the
\* values requested on the builder: max_notifiers, max_listeners and
\* event_id_max_value of the factory equal those written by the creator.
C33_FactoryCarriesExisting ==
    \A p \in Procs :
        (result[p] = "Ok" /\ create_result[p] # "Ok") =>
            /\ static.state = "Sealed"
            /\ factory[p] = static.config
            /\ ServiceConfig(settings[p]) = static.config
            /\ \A q \in Creators : factory[p] = factory[q]

C33_Witness ==
    \E p \in Procs :
        /\ result[p] = "Ok" /\ create_result[p] # "Ok"
        /\ Creators # {}
        /\ requested[p].verify_max_listeners
        /\ requested[p].verify_max_notifiers
        /\ requested[p].max_listeners < factory[p].max_listeners
        /\ requested[p].max_notifiers < factory[p].max_notifiers

\* the calls whose create_impl failed
FailedCreators ==
    {p \in Procs : create_result[p] \notin {"none", "Ok"}}

\* after a failed create_impl no artifact and no segment of that call exists,
\* and a locked artifact is the artifact of a creator that is still at work
C34_NothingLeft ==
    /\ \A p \in FailedCreators :
        /\ static.creator # p
        /\ ~(dynamic.exists /\ dynamic.creator = p)
    /\ static.state = "Locked" => static.creator \in Holders
    /\ static.state = "Sealed" => static.creator \in Creators \cup Holders

\* HangsInCreation is returned from a wait that followed a sample of
\* BeingCreated
C34_HangsFromLastSample ==
    \A q \in Procs :
        (result[q] = "none"
         /\ result'[q] = "EventOpenError::HangsInCreation") =>
            /\ pc[q] = "open_wait"
            /\ sample[q] = "IsBeingCreatedByAnotherInstance"

\* no call returns HangsInCreation when the artifact is gone
C34_HangsStep ==
    \A q \in Procs :
        (result[q] = "none"
         /\ result'[q] = "EventOpenError::HangsInCreation") =>
            static.state # "Absent"

\* C34: a create call that fails after it has exclusively created the static
\* artifact (dynamic storage error, serialization error or unlock error)
\* leaves no sealed artifact behind and does not leave the service in
\* BeingCreated: after the failed call has returned, other participants
\* observe Absent (or the state of another creator), so that a racing
\* open_or_create does not end in HangsInCreation because of it.
C34_FailedCreateNeverHangsOthers ==
    /\ []C34_NothingLeft
    /\ [][C34_HangsStep]_vars

\* C34 as it holds: nothing of the failed call is left and every later
\* sample observes Absent (or the state of another creator); a call that
\* sampled BeingCreated before returns HangsInCreation from the wait it had
\* begun, without sampling again.
C34_FailedCreateLeavesNothing ==
    /\ []C34_NothingLeft
    /\ [][C34_HangsFromLastSample]_vars

C34_Witness ==
    \E p \in FailedCreators, q \in Procs \ FailedCreators :
        /\ create_result[p] \in {"EventCreateError::Corrupted",
                                 "EventCreateError::InternalFailure",
                                 "EventCreateError::OldConnectionsStillActive"}
        /\ op[q] = "open_or_create"
        /\ waited[q] > 0
        /\ pc[q] = "done"
        /\ result[q] = "EventOpenError::DoesNotExist"
        /\ static = AbsentStatic

\* ------------------------------------------------ claims: dynamic storage
\* the reference count of every object is the number of handles open on it
C31_CountsOpenHandles ==
    \A o \in Objects : shm[o].refcount = Cardinality(OpenHandles(o))

\* the name is unlinked by the handle that dropped the count of the linked
\* object to zero, at a time when no handle is open on that object
C31_Step ==
    \A p \in Peers :
        (storage[p].state = "zero" /\ storage'[p] = NoHandle
         /\ shm_name' # shm_name) =>
            /\ storage[p].object = shm_name
            /\ OpenHandles(shm_name) = {}

\* C31: the reference count of the dynamic storage equals the number of open
\* handles in every reachable state; under any interleaving of open and
\* destroy the backing object is unlinked exactly once, by the handle whose
\* decrement brings the count to zero, and never while another handle is
\* still open.
C31_LastDropperUnlinks ==
    /\ []C31_CountsOpenHandles
    /\ \A o \in Objects : [](shm[o].unlinks <= 1)
    /\ [][C31_Step]_vars

\* ----------------------------------------------------- claims: posix shim
\* the thread makes the call c with the fd
ShimStep(c, fd) ==
    /\ shim'.call = c /\ shim'.fd = fd
    /\ <<table, errno, shim>>' # <<table, errno, shim>>

C39_Step ==
    \A fd \in ShimFds :
        /\ \A c \in {"close", "read", "write", "lseek", "fsync", "ftruncate"} :
            (ShimStep(c, fd) /\ table[fd] \notin Supported(c)) =>
                /\ shim'.value = -1
                /\ errno' = "EBADF"
                /\ table' = table
        /\ (ShimStep("close", fd) /\ shim'.value = 0) => table'[fd] = "None"

\* C39: in the Windows POSIX shim close, read, write, lseek, fsync and
\* ftruncate, called with an fd that the handle translator does not know or
\* whose entry kind the operation does not support, return -1 and set errno
\* to EBADF and leave the handle table unchanged; after a successful
\* close(fd) the fd is no longer in the handle table, so that a second
\* close(fd) returns -1 with EBADF.
C39_BadFd == [][C39_Step]_vars

\* ------------------------------------------------- claims: wait set, II
\* the step of the run of w in which the reset of a deadline timer fails
ResetFails(w) ==
    /\ wpc[w] = "reset"
    /\ run_result'[w] = "Err(WaitSetWaitError::InternalError)"

\* a failing reset ends the run at once: no callback has been called for an
\* fd of the cycle, none is called by the step, and the run is over
C35_Step ==
    \A w \in world.waitsets :
        ResetFails(w) =>
            /\ calls[w] = <<>> /\ calls'[w] = <<>>
            /\ wpc'[w] = "idle"
            /\ reset_deadline(w, fds[w][Len(fd_and_timer_idx[w]) + 1]) # NoTimer

\* a run that collected ready fds and returned InternalError called no callback
C35_NoCallback ==
    \A w \in world.waitsets :
        (timed_wait[w] = "Ok(n)"
         /\ run_result[w] = "Err(WaitSetWaitError::InternalError)") =>
            calls[w] = <<>>

\* C35: if resetting the deadline timer of any ready fd fails during run, run
\* returns Err(WaitSetWaitError::InternalError) without having invoked the
\* callback for any ready fd of that cycle.
C35_ResetFailureCallsNothing ==
    /\ []C35_NoCallback
    /\ [][C35_Step]_vars

\* the reset of the second ready fd failed after the first one was reset
C35_Witness ==
    \E w \in world.waitsets :
        /\ timed_wait[w] = "Ok(n)"
        /\ run_result[w] = "Err(WaitSetWaitError::InternalError)"
        /\ Len(fds[w]) = 2
        /\ Len(fd_and_timer_idx[w]) = 1
        /\ fd_and_timer_idx[w][1][2] # NoTimer

\* the step of a deadline call on w, for an object that was not attached,
\* that fails with InternalError
DeadlineFails(w) ==
    /\ attach_result'[w] # attach_result[w]
    /\ attach_result'[w].call = "deadline"
    /\ attach_result'[w].result = "WaitSetAttachmentError::InternalError"
    /\ ~attach_result'[w].attached

\* a failed deadline call leaves the WaitSet as it was: nothing is attached to
\* the reactor, no timer is armed, no fd has a deadline and no Guard exists
C36_Step ==
    \A w \in world.waitsets :
        DeadlineFails(w) =>
            /\ reactor'[w] = reactor[w]
            /\ Cardinality(reactor'[w]) = attach_result'[w].len
            /\ timer'[w] = timer[w]
            /\ deadline_to_timer'[w] = deadline_to_timer[w]
            /\ guards'[w] = guards[w]

\* every fd attached to the reactor is the fd of a live Guard, and every fd
\* with a deadline is attached to the reactor
C36_AttachedByGuards ==
    \A w \in world.waitsets :
        /\ reactor[w] = {g.fd : g \in {h \in guards[w] : h.fd # NoFd}}
        /\ \A e \in deadline_to_timer[w] : e[1] \in reactor[w]

\* C36: WaitSet::deadline is all-or-nothing: when the reactor attachment
\* succeeds and arming the cyclic timer fails, the call returns InternalError,
\* the reactor attachment is released (len() is as before and the object can
\* be attached later) and no fd-to-timer entry exists for the object.
C36_DeadlineAllOrNothing ==
    /\ []C36_AttachedByGuards
    /\ [][C36_Step]_vars

\* a deadline call failed on a free object while the reactor had room and
\* every timer was armed
C36_Witness ==
    \E w \in world.waitsets :
        /\ attach_result[w].call = "deadline"
        /\ attach_result[w].result = "WaitSetAttachmentError::InternalError"
        /\ ~attach_result[w].attached
        /\ attach_result[w].len < world.capacity
        /\ len(w) = attach_result[w].len
        /\ len(w) > 0
        /\ \A t \in world.timers : timer[w][t].armed

\* the deadlines recorded for w are those of its live deadline Guards: one
\* entry per Guard, from the fd of the Guard to its timer index
C37_KeysAreDeadlineFds ==
    \A w \in world.waitsets :
        /\ deadline_to_timer[w] = {<<g.fd, g.timer>> : g \in DeadlineGuards(w)}
        /\ \A e1, e2 \in deadline_to_timer[w] : e1[1] = e2[1] => e1 = e2

\* in a run, the ready fd of a notification attachment has no timer recorded
\* and is handed to the callback with the notification id
C37_PlainNotification ==
    \A w \in world.waitsets : \A i \in DOMAIN fds[w] :
        Guard_notification(w, fds[w][i]) \in guards[w] =>
            /\ i \in DOMAIN fd_and_timer_idx[w] =>
                    fd_and_timer_idx[w][i] = <<fds[w][i], NoTimer>>
            /\ i \in DOMAIN calls[w] =>
                    calls[w][i] = AttachmentId_notification(w, fds[w][i])

\* the reset step for the ready fd of a notification attachment resets no timer
C37_Step ==
    \A w \in world.waitsets :
        (wpc[w] = "reset"
         /\ fd_and_timer_idx'[w] # fd_and_timer_idx[w]
         /\ Guard_notification(w, fds[w][Len(fd_and_timer_idx[w]) + 1])
                \in guards[w]) =>
            timer' = timer

\* C37: after any sequence of attachments and drops on a WaitSet, the key set
\* of deadline_to_timer is exactly the set of fds of the live deadline guards
\* and each key maps to the timer index of that guard; hence a ready fd
\* belonging to a plain notification attachment never resets any timer and is
\* never delivered with a deadline id.
C37_DeadlineMapOfLiveGuards ==
    /\ []C37_KeysAreDeadlineFds
    /\ []C37_PlainNotification
    /\ [][C37_Step]_vars

\* a run delivered the ready fds of a notification and of a deadline attachment
\* in one cycle
C37_Witness ==
    \E w \in world.waitsets :
        /\ run_result[w] = "Ok(WaitEvent::Notification)"
        /\ Len(calls[w]) = 2
        /\ Len(fd_and_timer_idx[w]) = 2
        /\ \E i, j \in 1..2 :
            /\ calls[w][i].kind = "Notification"
            /\ fd_and_timer_idx[w][i][2] = NoTimer
            /\ Guard_notification(w, fds[w][i]) \in guards[w]
            /\ calls[w][j].kind = "Deadline"
        /\ Cardinality(DeadlineGuards(w)) = 1
        /\ \E t \in TimerIndex : ~timer[w][t].armed

\* C40: in every reachable WaitSet state the two bookkeeping maps are mutually
\* inverse: timer_to_deadline contains (t, fd) exactly when deadline_to_timer
\* contains (fd, t), so the fd of a fired deadline timer can be looked up from
\* its timer index.
C40_MapsInverse ==
    \A w \in world.waitsets :
        /\ timer_to_deadline[w] = {<<e[2], e[1]>> : e \in deadline_to_timer[w]}
        /\ \A g \in DeadlineGuards(w) :
                g.timer \in Fired(w) =>
                    \E e \in timer_to_deadline[w] : e = <<g.timer, g.fd>>

\* the period of the tick attachment with the timer t of w has elapsed
TickDue(w, t) ==
    /\ w \in world.waitsets
    /\ Guard_tick(w, t) \in guards[w]
    /\ t \in Fired(w)

\* a run of w handed the tick id of the timer t to the callback
TickReported(w, t) ==
    /\ w \in world.waitsets
    /\ \E i \in DOMAIN calls[w] : calls[w][i] = AttachmentId_tick(w, t)

\* what ends the duty to report the tick of t: its Guard is dropped, the
\* process is asked to terminate, or a run returns an error or an interrupt
TickExcused(w, t) ==
    \/ w \notin world.waitsets
    \/ Guard_tick(w, t) \notin guards[w]
    \/ termination_requested
    \/ run_result[w] \notin {"none", "Ok(WaitEvent::Tick)",
                             "Ok(WaitEvent::Notification)"}

\* C38: when run is called repeatedly, every tick attachment whose period has
\* elapsed is eventually reported to the callback by some run call, also when
\* one or more attached fds are ready in every cycle.
C38_TicksNotStarved ==
    \A w \in WaitSets, t \in TimerIndex :
        TickDue(w, t) ~> (TickReported(w, t) \/ TickExcused(w, t))

====
